---- MODULE Spec2Model ----
(***************************************************************************)
(* A state-machine model of the LessVM bytecode virtual machine            *)
(* (lessvm-solana/src/vm): the operand stack, the gas meter, the           *)
(* reentrancy guard, the account view and the fetch-decode-execute loop    *)
(* of VM::execute.                                                         *)
(*                                                                         *)
(* A u64 is modelled as the sequence of its eight little-endian bytes      *)
(* (TLC integers are 32 bits wide), with the checked arithmetic of the     *)
(* Rust standard library written out digit by digit.                       *)
(***************************************************************************)
EXTENDS Integers, Sequences, FiniteSets, TLC

(***************************************************************************)
(* 64-bit words as little-endian byte sequences                            *)
(***************************************************************************)

\* Option::None and Option::Some(x): the empty and the one-element sequence.
None == <<>>
Some(x) == <<x>>

\* Option::unwrap on a Some.
Unwrap(o) == o[1]

\* F(e) with e evaluated once: LET x == e IN F(x) for an e that is costly to
\* evaluate at every use of x.
Let(e, F(_)) == CHOOSE y \in {F(x) : x \in {e}} : TRUE

\* "No error" where the alternatives are the names of errors.
NoError == "NoError"

\* "No opcode" where the alternatives are the names of opcodes.
NoOpcode == "NoOpcode"

\* Number of bytes of a u64.
WordBytes == 8

\* The u64 whose value is the small natural n (n < 2^31).
U64(n) == [i \in 1..WordBytes |-> IF i <= 4 THEN (n \div (256 ^ (i - 1))) % 256 ELSE 0]

\* Value::default(): the word 0.
ZeroValue == U64(0)

\* u64::MAX.
U64Max == [i \in 1..WordBytes |-> 255]

\* TRUE iff the word is below 2^31, so that it has a TLC integer.
IsSmall(v) == v[4] < 128 /\ \A i \in 5..WordBytes : v[i] = 0

\* The integer of a small word.
ToNat(v) == v[1] + 256 * v[2] + 65536 * v[3] + 16777216 * v[4]

\* `v as usize >= n` for a length n of the model (usize is 64 bits wide).
UsizeGe(v, n) == ~IsSmall(v) \/ ToNat(v) >= n

\* Digit-wise sum of two equally long digit sequences with carry-in c; the
\* result has one more digit, the carry-out.
RECURSIVE AddDigits(_, _, _)
AddDigits(a, b, c) ==
    IF a = <<>> THEN <<c>>
    ELSE Let(Head(a) + Head(b) + c,
             LAMBDA s : <<s % 256>> \o AddDigits(Tail(a), Tail(b), s \div 256))

\* Digit-wise difference a - b with borrow-in c; the last digit of the result
\* is the borrow-out.
RECURSIVE SubDigits(_, _, _)
SubDigits(a, b, c) ==
    IF a = <<>> THEN <<c>>
    ELSE Let(Head(a) - Head(b) - c,
             LAMBDA d : IF d < 0 THEN <<d + 256>> \o SubDigits(Tail(a), Tail(b), 1)
                                 ELSE <<d>> \o SubDigits(Tail(a), Tail(b), 0))

\* a times the single digit d plus carry c; one digit longer than a.
RECURSIVE MulDigit(_, _, _)
MulDigit(a, d, c) ==
    IF a = <<>> THEN <<c>>
    ELSE Let(Head(a) * d + c,
             LAMBDA p : <<p % 256>> \o MulDigit(Tail(a), d, p \div 256))

\* n zero digits.
Zeros(n) == [i \in 1..n |-> 0]

\* a widened with zero digits to n digits.
Widen(a, n) == a \o Zeros(n - Len(a))

\* The full product of two digit sequences, Len(a) + Len(b) digits long.
RECURSIVE MulFull(_, _)
MulFull(a, b) ==
    IF b = <<>> THEN Zeros(Len(a))
    ELSE LET low  == MulDigit(a, Head(b), 0)
             rest == <<0>> \o MulFull(a, Tail(b))
             sum  == AddDigits(Widen(low, Len(rest)), rest, 0)
         IN  SubSeq(sum, 1, Len(rest))

\* a < b for equally long digit sequences.
DigitsLt(a, b) == SubDigits(a, b, 0)[Len(a) + 1] = 1

\* a <= b for equally long digit sequences.
DigitsLe(a, b) == ~DigitsLt(b, a)

\* Long division, most significant digit first: i is the digit of a being
\* brought down, rem the running remainder (Len(b) digits), q the quotient
\* digits found so far.  Returns <<quotient, remainder>>.
RECURSIVE DivDigits(_, _, _, _, _)
DivDigits(a, b, i, rem, q) ==
    IF i = 0 THEN <<q, rem>>
    ELSE LET cur == <<a[i]>> \o rem
             bw  == Widen(b, Len(cur))
             qd  == CHOOSE d \in 0..255 :
                       /\ DigitsLe(MulDigit(b, d, 0), cur)
                       /\ (d = 255 \/ DigitsLt(cur, MulDigit(b, d + 1, 0)))
             r   == SubDigits(cur, MulDigit(b, qd, 0), 0)
         IN  DivDigits(a, b, i - 1, SubSeq(r, 1, Len(b)), [q EXCEPT ![i] = qd])

\* Quotient and remainder of a by b (b nonzero), both as long as a.
DivMod(a, b) == DivDigits(a, b, Len(a), Zeros(Len(b)), Zeros(Len(a)))

\* Quotient of a digit sequence by a natural n in 1..255, as long as the
\* sequence: short division from the most significant digit, i the digit
\* being brought down and rem the running remainder.
RECURSIVE DivSmallDigits(_, _, _, _)
DivSmallDigits(a, n, i, rem) ==
    IF i = 0 THEN <<>>
    ELSE LET cur == rem * 256 + a[i]
         IN  Append(DivSmallDigits(a, n, i - 1, cur % n), cur \div n)

\* The / operator of u64 with a divisor in 1..255.
u64_div_small(a, n) == DivSmallDigits(a, n, Len(a), 0)

\* u64::wrapping_add: the + operator without overflow checks.
u64_wrapping_add(a, b) == SubSeq(AddDigits(a, b, 0), 1, WordBytes)

\* u64::wrapping_sub: the - operator without overflow checks.
u64_wrapping_sub(a, b) == SubSeq(SubDigits(a, b, 0), 1, WordBytes)

\* u64::checked_add
u64_checked_add(a, b) ==
    LET s == AddDigits(a, b, 0)
    IN  IF s[WordBytes + 1] # 0 THEN None ELSE Some(SubSeq(s, 1, WordBytes))

\* u64::checked_sub
u64_checked_sub(a, b) ==
    LET d == SubDigits(a, b, 0)
    IN  IF d[WordBytes + 1] # 0 THEN None ELSE Some(SubSeq(d, 1, WordBytes))

\* u64::checked_mul
u64_checked_mul(a, b) ==
    LET p == MulFull(a, b)
    IN  IF SubSeq(p, WordBytes + 1, 2 * WordBytes) # Zeros(WordBytes)
        THEN None ELSE Some(SubSeq(p, 1, WordBytes))

\* u64::checked_div
u64_checked_div(a, b) == IF b = ZeroValue THEN None ELSE Some(DivMod(a, b)[1])

\* The % operator of u64 (the divisor is nonzero).
u64_rem(a, b) == DivMod(a, b)[2]

(***************************************************************************)
(* OpCode (opcodes.rs)                                                     *)
(***************************************************************************)

\* The enumeration's discriminants: opcode name -> byte.
OpCode ==
    [ Nop |-> 0, Push1 |-> 1, Push8 |-> 2, Pop |-> 3, Dup |-> 4, Swap |-> 5,
      Add |-> 16, Sub |-> 17, Mul |-> 18, Div |-> 19, MulDiv |-> 20, Mod |-> 21,
      Exp |-> 22, SignExtend |-> 23,
      And |-> 24, Or |-> 25, Xor |-> 26, Not |-> 27, Byte |-> 28, Shl |-> 29,
      Shr |-> 30, Sar |-> 31,
      Load |-> 32, Store |-> 33, LoadN |-> 34, StoreN |-> 35, Msize |-> 36,
      Mload8 |-> 37, Mstore8 |-> 38,
      Jump |-> 48, JumpI |-> 49, Call |-> 50, Return |-> 51, Revert |-> 52,
      Transfer |-> 64, SPLTransfer |-> 65, CPI |-> 66, Log |-> 67,
      GetBalance |-> 68, GetOwner |-> 69, IsWritable |-> 70, IsSigner |-> 71,
      BTreeCreate |-> 80, BTreeInsert |-> 81, BTreeGet |-> 82, BTreeRemove |-> 83,
      BTreeContains |-> 84, BTreeLen |-> 85, BTreeFirstKey |-> 86,
      BTreeLastKey |-> 87, BTreeClear |-> 88,
      TrieCreate |-> 89, TrieInsert |-> 90, TrieGet |-> 91, TrieContains |-> 92,
      TrieClear |-> 93,
      GraphCreate |-> 96, GraphAddNode |-> 97, GraphAddEdge |-> 98,
      GraphGetNode |-> 99, GraphSetNode |-> 100, GraphGetNeighbors |-> 101,
      GraphBfs |-> 102, GraphClear |-> 103,
      OhlcvCreate |-> 104, OhlcvAddBar |-> 105, OhlcvGetBar |-> 106,
      OhlcvSma |-> 107,
      HyperCreate |-> 108, HyperAddNode |-> 109, HyperAddEdge |-> 110,
      HyperAddNodeToEdge |-> 111,
      Halt |-> 255 ]

\* The names of all opcodes.
OpNames == DOMAIN OpCode

\* OpCode::from_byte: the byte ranges it accepts, transmuted to the opcode with
\* that discriminant; NoOpcode for every other byte.
from_byte(byte) ==
    IF \/ byte \in 0..5   \/ byte \in 16..31 \/ byte \in 32..38
       \/ byte \in 48..52 \/ byte \in 64..71 \/ byte \in 80..93
       \/ byte \in 96..111 \/ byte = 255
    THEN CHOOSE op \in OpNames : OpCode[op] = byte
    ELSE NoOpcode

\* A cost table that charges every opcode that lets execution go on 3, Push1
\* included.
gas_cost_uniform(op) == IF op \in {"Return", "Revert", "Halt"} THEN 0 ELSE 3

\* OpCode::gas_cost
gas_cost(op) ==
    CASE op = "Nop" -> 1
      [] op \in {"Push1", "Pop"} -> 2
      [] op = "Push8" -> 3
      [] op \in {"Dup", "Swap"} -> 3
      [] op \in {"Add", "Sub"} -> 3
      [] op = "Mul" -> 5
      [] op \in {"Div", "Mod"} -> 8
      [] op = "MulDiv" -> 10
      [] op = "Exp" -> 50
      [] op = "SignExtend" -> 5
      [] op \in {"And", "Or", "Xor", "Not"} -> 3
      [] op = "Byte" -> 3
      [] op \in {"Shl", "Shr", "Sar"} -> 3
      [] op \in {"Load", "Store"} -> 3
      [] op \in {"LoadN", "StoreN"} -> 6
      [] op = "Msize" -> 2
      [] op \in {"Mload8", "Mstore8"} -> 3
      [] op = "Jump" -> 8
      [] op = "JumpI" -> 10
      [] op = "Call" -> 40
      [] op = "Return" -> 0
      [] op = "Revert" -> 0
      [] op \in {"Transfer", "SPLTransfer"} -> 100
      [] op = "CPI" -> 200
      [] op = "Log" -> 8
      [] op \in {"GetBalance", "GetOwner"} -> 20
      [] op \in {"IsWritable", "IsSigner"} -> 5
      [] op \in {"BTreeCreate", "TrieCreate", "GraphCreate", "OhlcvCreate",
                 "HyperCreate"} -> 5
      [] op \in {"BTreeInsert", "BTreeGet", "BTreeRemove", "BTreeContains",
                 "BTreeFirstKey", "BTreeLastKey"} -> 15
      [] op \in {"TrieInsert", "TrieGet", "TrieContains"} -> 20
      [] op \in {"GraphAddNode", "GraphGetNode", "GraphSetNode"} -> 10
      [] op \in {"GraphAddEdge", "GraphGetNeighbors"} -> 15
      [] op = "GraphBfs" -> 50
      [] op \in {"OhlcvAddBar", "OhlcvGetBar"} -> 8
      [] op = "OhlcvSma" -> 30
      [] op \in {"HyperAddNode", "HyperAddEdge", "HyperAddNodeToEdge"} -> 20
      [] op \in {"BTreeLen", "BTreeClear", "TrieClear", "GraphClear"} -> 5
      [] op = "Halt" -> 0

(***************************************************************************)
(* Gas (gas.rs)                                                            *)
(***************************************************************************)

\* Gas::new
Gas_new(limit) == [remaining |-> limit, last_checkpoint |-> limit, checkpoints |-> <<>>]

\* A meter that credits the amount instead of debiting it.
Gas_consume_credit(g, amount) == Some([g EXCEPT !.remaining = g.remaining + amount])

\* A meter that charges nothing.
Gas_consume_free(g, amount) == Some(g)

\* Gas::consume: the meter after the charge, or None (out of gas) when the
\* checked subtraction fails; the meter is then left as it was.
Gas_consume(g, amount) ==
    IF g.remaining < amount THEN None
    ELSE Some([g EXCEPT !.remaining = g.remaining - amount])

\* Gas::remaining
Gas_remaining(g) == g.remaining

\* Gas::checkpoint
Gas_checkpoint(g) ==
    [g EXCEPT !.checkpoints = Append(@, g.remaining), !.last_checkpoint = g.remaining]

\* A revert that restores the oldest checkpoint and drops the latest.
Gas_revert_to_oldest(g) ==
    IF g.checkpoints = <<>> THEN [g |-> g, err |-> "OutOfGas"]
    ELSE [g   |-> [g EXCEPT !.remaining = g.checkpoints[1],
                            !.last_checkpoint = g.checkpoints[1],
                            !.checkpoints = SubSeq(@, 1, Len(@) - 1)],
          err |-> NoError]

\* A revert that leaves last_checkpoint as it was.
Gas_revert_keeping_mark(g) ==
    IF g.checkpoints = <<>> THEN [g |-> g, err |-> "OutOfGas"]
    ELSE [g   |-> [g EXCEPT !.remaining = g.checkpoints[Len(g.checkpoints)],
                            !.checkpoints = SubSeq(@, 1, Len(@) - 1)],
          err |-> NoError]

\* Gas::revert_to_checkpoint: the meter, and NoError or the error returned.
\* With no checkpoint to pop, `?` returns before remaining is assigned.
Gas_revert_to_checkpoint(g) ==
    IF g.checkpoints = <<>> THEN [g |-> g, err |-> "OutOfGas"]
    ELSE [g   |-> [g EXCEPT !.remaining = g.checkpoints[Len(g.checkpoints)],
                            !.last_checkpoint = g.checkpoints[Len(g.checkpoints)],
                            !.checkpoints = SubSeq(@, 1, Len(@) - 1)],
          err |-> NoError]

\* Gas::commit_checkpoint (the pop of an empty vector yields None, which is
\* dropped)
Gas_commit_checkpoint(g) ==
    [g EXCEPT !.last_checkpoint = g.remaining,
              !.checkpoints = IF @ = <<>> THEN <<>> ELSE SubSeq(@, 1, Len(@) - 1)]

\* Gas::used: last_checkpoint - remaining on u64; None where the subtraction
\* underflows (a panic with overflow checks, a wrapped value without).
Gas_used(g) ==
    IF g.last_checkpoint < g.remaining THEN None
    ELSE Some(g.last_checkpoint - g.remaining)

\* Gas::reset
Gas_reset(g) == [g EXCEPT !.remaining = g.last_checkpoint, !.checkpoints = <<>>]

(***************************************************************************)
(* Stack (stack.rs).  `data` is the SmallVec, `top` the depth counter.     *)
(* Each operation returns [s |-> the stack afterwards, v |-> the value it  *)
(* yields (None if none), err |-> the VMError (NoError on success)].          *)
(***************************************************************************)

\* Length the constructor gives `data` (smallvec![Value(0); 64]).
STACK_SLOTS == 64

\* Limit on the call-frame markers (push_frame).
MAX_FRAMES == 8

\* Stack::new
Stack_new == [data |-> [i \in 1..STACK_SLOTS |-> ZeroValue], frames |-> <<>>, top |-> 0]

\* Stack::push
Stack_push(s, value) ==
    IF s.top >= Len(s.data)
    THEN [s |-> s, v |-> None, err |-> "StackOverflow"]
    ELSE [s |-> [s EXCEPT !.data = Append(@, value), !.top = @ + 1],
          v |-> None, err |-> NoError]

\* Stack::pop (data.pop().unwrap() panics on an empty vector)
Stack_pop(s) ==
    IF s.top = 0
    THEN [s |-> s, v |-> None, err |-> "StackUnderflow"]
    ELSE IF s.data = <<>>
    THEN [s |-> [s EXCEPT !.top = @ - 1], v |-> None, err |-> "Panic"]
    ELSE [s |-> [s EXCEPT !.top = @ - 1, !.data = SubSeq(@, 1, Len(@) - 1)],
          v |-> s.data[Len(s.data)], err |-> NoError]

\* Stack::dup: reads slot top-1-n of `data` (0-based) and pushes it; indexing
\* past the end of `data` panics.
Stack_dup(s, n) ==
    IF n >= s.top
    THEN [s |-> s, v |-> None, err |-> "StackUnderflow"]
    ELSE IF s.top - n > Len(s.data)
    THEN [s |-> s, v |-> None, err |-> "Panic"]
    ELSE Stack_push(s, s.data[s.top - n])

\* Stack::swap: exchanges slots top-1 and top-1-n of `data` (0-based);
\* indexing past the end of `data` panics.
Stack_swap(s, n) ==
    IF n >= s.top
    THEN [s |-> s, v |-> None, err |-> "StackUnderflow"]
    ELSE IF s.top > Len(s.data)
    THEN [s |-> s, v |-> None, err |-> "Panic"]
    ELSE [s |-> [s EXCEPT !.data = [@ EXCEPT ![s.top] = s.data[s.top - n],
                                              ![s.top - n] = s.data[s.top]]],
          v |-> None, err |-> NoError]

\* Stack::depth
Stack_depth(s) == s.top

\* Stack::push_frame
Stack_push_frame(s) ==
    IF Len(s.frames) >= MAX_FRAMES
    THEN [s |-> s, v |-> None, err |-> "StackOverflow"]
    ELSE [s |-> [s EXCEPT !.frames = Append(@, s.top)], v |-> None, err |-> NoError]

\* Stack::pop_frame (Vec::truncate keeps a shorter vector as it is)
Stack_pop_frame(s) ==
    IF s.frames = <<>>
    THEN [s |-> s, v |-> None, err |-> "StackUnderflow"]
    ELSE LET frame_start == s.frames[Len(s.frames)]
         IN  [s |-> [s EXCEPT !.frames = SubSeq(@, 1, Len(@) - 1),
                              !.data = IF frame_start < Len(@)
                                       THEN SubSeq(@, 1, frame_start) ELSE @,
                              !.top = frame_start],
              v |-> None, err |-> NoError]

\* n successive pops, as a handler's `self.stack.pop()?` lines make them: the
\* pops before a failing one have happened.  vals lists the popped values in
\* the order they came off.
RECURSIVE PopN(_, _)
PopN(s, n) ==
    IF n = 0 THEN [s |-> s, vals |-> <<>>, err |-> NoError]
    ELSE Let(Stack_pop(s), LAMBDA p :
             IF p.err # NoError THEN [s |-> p.s, vals |-> <<>>, err |-> p.err]
             ELSE Let(PopN(p.s, n - 1), LAMBDA rest :
                      [s |-> rest.s, vals |-> <<p.v>> \o rest.vals, err |-> rest.err]))

(***************************************************************************)
(* Memory (memory.rs).  `data` is a zero-initialised byte vector; the      *)
(* model keeps its length (data_len) and its nonzero bytes (bytes, a       *)
(* function from 0-based offsets), every other byte being 0.               *)
(***************************************************************************)

\* Length of the buffer Memory::new allocates.
INITIAL_MEMORY == 1024

\* Memory::new
Memory_new == [data_len |-> INITIAL_MEMORY, size |-> 0, bytes |-> <<>>]

\* The larger of two naturals (usize::max).
Max(a, b) == IF a >= b THEN a ELSE b

\* The byte at a 0-based offset below data_len.
Memory_byte(m, offset) == IF offset \in DOMAIN m.bytes THEN m.bytes[offset] ELSE 0

\* A growth policy that takes the larger of one and a half times the length
\* and the required size.
Memory_ensure_capacity_half(m, required_size) ==
    IF required_size > m.data_len
    THEN [m EXCEPT !.data_len = Max((m.data_len * 3) \div 2, required_size)]
    ELSE m

\* Memory::ensure_capacity
Memory_ensure_capacity(m, required_size) ==
    IF required_size > m.data_len
    THEN [m EXCEPT !.data_len = Max(Max(m.data_len, required_size), INITIAL_MEMORY) * 2]
    ELSE m

\* data[offset..offset + Len(value)].copy_from_slice(value)
Memory_write(m, offset, value) ==
    LET range == offset..(offset + Len(value) - 1)
        keep  == (DOMAIN m.bytes \ range) \cup {o \in range : value[o - offset + 1] # 0}
    IN  [m EXCEPT !.bytes = [o \in keep |-> IF o \in range THEN value[o - offset + 1]
                                                             ELSE m.bytes[o]]]

\* A store that writes the value one byte further on.
Memory_store_shifted(m, offset, value) ==
    LET grown   == Memory_ensure_capacity(m, offset + Len(value) + 1)
        written == Memory_write(grown, offset + 1, value)
    IN  [written EXCEPT !.size = Max(m.size, offset + Len(value))]

\* Memory::store, for offsets below 2^31 (the checked_add cannot overflow).
Memory_store(m, offset, value) ==
    LET end_offset == offset + Len(value)
        grown      == Memory_ensure_capacity(m, end_offset)
        written    == Memory_write(grown, offset, value)
    IN  [written EXCEPT !.size = Max(m.size, offset + Len(value))]

\* Memory::store8, for offsets below 2^31.
Memory_store8(m, offset, value) ==
    LET grown   == Memory_ensure_capacity(m, offset + 1)
        written == Memory_write(grown, offset, <<value>>)
    IN  [written EXCEPT !.size = Max(m.size, offset + 1)]

\* Memory::copy, for offsets below 2^31: copy_within reads the source range
\* before it writes the destination.
Memory_copy(m, dest, src, len) ==
    LET grown   == Memory_ensure_capacity(m, Max(dest + len, src + len))
        source  == [i \in 1..len |-> Memory_byte(grown, src + i - 1)]
        written == Memory_write(grown, dest, source)
    IN  [written EXCEPT !.size = Max(m.size, dest + len)]

\* Memory::capacity
Memory_capacity(m) == m.data_len

\* Memory::bounds_check: TRUE iff the range lies in the buffer.
Memory_bounds_check(m, offset, size) == offset + size <= m.data_len

\* Memory::load: the bytes read, or None when the bounds check fails.
Memory_load(m, offset, len) ==
    IF ~Memory_bounds_check(m, offset, len) THEN None
    ELSE Some([i \in 1..len |-> Memory_byte(m, offset + i - 1)])

\* Memory::size
Memory_size(m) == m.size

(***************************************************************************)
(* The aggregate data-structure store (core.rs, data_structures.rs)        *)
(***************************************************************************)

\* BTreeMapDS::new
BTreeMapDS_new == [data |-> <<>>]

\* TrieDS::new: one root node without children.
TrieDS_new ==
    [nodes |-> <<[children |-> <<>>, is_end_of_word |-> FALSE, value |-> None]>>,
     root |-> 0]

\* HashMap::insert / BTreeMap::insert on a map kept as a function.
MapInsert(map, key, value) ==
    [k \in DOMAIN map \cup {key} |-> IF k = key THEN value ELSE map[k]]

\* A TrieNode without children, as insert and new create it.
TrieNode_new == [children |-> <<>>, is_end_of_word |-> FALSE, value |-> None]

\* The loop of TrieDS::insert: follows the key's bytes from node current_node
\* (a 0-based index into nodes), creating and linking the missing nodes; the
\* node vector and the index of the key's node.
RECURSIVE TrieDS_insert_walk(_, _, _)
TrieDS_insert_walk(nodes, current_node, key) ==
    IF key = <<>> THEN [nodes |-> nodes, current_node |-> current_node]
    ELSE LET byte     == Head(key)
             children == nodes[current_node + 1].children
         IN  IF byte \in DOMAIN children
             THEN TrieDS_insert_walk(nodes, children[byte], Tail(key))
             ELSE LET new_index == Len(nodes)
                      pushed    == Append(nodes, TrieNode_new)
                      linked    == [pushed EXCEPT ![current_node + 1].children =
                                                     MapInsert(@, byte, new_index)]
                  IN  TrieDS_insert_walk(linked, new_index, Tail(key))

\* An insert that marks every node on the key's path as the end of a word
\* holding the value.
RECURSIVE TrieDS_insert_marking_path(_, _, _)
TrieDS_insert_marking_path(t, key, value) ==
    LET marked == [t EXCEPT !.nodes[t.root + 1].is_end_of_word = TRUE,
                            !.nodes[t.root + 1].value = Some(value)]
    IN  IF key = <<>> THEN marked
        ELSE LET w    == TrieDS_insert_walk(marked.nodes, marked.root, <<Head(key)>>)
                 rest == TrieDS_insert_marking_path(
                           [nodes |-> w.nodes, root |-> w.current_node], Tail(key), value)
             IN  [nodes |-> rest.nodes, root |-> t.root]

\* TrieDS::insert (always Ok(()))
TrieDS_insert(t, key, value) ==
    LET w == TrieDS_insert_walk(t.nodes, t.root, key)
    IN  [t EXCEPT !.nodes = [w.nodes EXCEPT ![w.current_node + 1].is_end_of_word = TRUE,
                                            ![w.current_node + 1].value = Some(value)]]

\* The loop of TrieDS::get: the index of the key's node, or None when a child
\* is missing.
RECURSIVE TrieDS_get_walk(_, _, _)
TrieDS_get_walk(nodes, current_node, key) ==
    IF key = <<>> THEN Some(current_node)
    ELSE LET children == nodes[current_node + 1].children
         IN  IF Head(key) \in DOMAIN children
             THEN TrieDS_get_walk(nodes, children[Head(key)], Tail(key))
             ELSE None

\* TrieDS::get
TrieDS_get(t, key) ==
    LET w == TrieDS_get_walk(t.nodes, t.root, key)
    IN  IF w = None THEN None
        ELSE IF t.nodes[Unwrap(w) + 1].is_end_of_word
        THEN t.nodes[Unwrap(w) + 1].value
        ELSE None

\* TrieDS::contains
TrieDS_contains(t, key) == TrieDS_get(t, key) # None

\* BTreeMapDS::insert: the map with the entry, and the value the key had.
BTreeMapDS_insert(b, key, value) ==
    [b   |-> [b EXCEPT !.data = MapInsert(@, key, value)],
     old |-> IF key \in DOMAIN b.data THEN Some(b.data[key]) ELSE None]

\* BTreeMapDS::get
BTreeMapDS_get(b, key) == IF key \in DOMAIN b.data THEN Some(b.data[key]) ELSE None

\* BTreeMapDS::clear
BTreeMapDS_clear(b) == [b EXCEPT !.data = <<>>]

\* GraphDS::new
GraphDS_new == [edges |-> <<>>, node_values |-> <<>>]

\* Largest number of nodes add_node accepts.
MAX_GRAPH_NODES == 1024

\* GraphDS::add_node: the graph, and NoError or the error returned.
GraphDS_add_node(g, node_id, value) ==
    IF Cardinality(DOMAIN g.node_values) >= MAX_GRAPH_NODES
    THEN [g |-> g, err |-> "StackOverflow"]
    ELSE [g   |-> [node_values |-> MapInsert(g.node_values, node_id, value),
                   edges       |-> IF node_id \in DOMAIN g.edges THEN g.edges
                                   ELSE MapInsert(g.edges, node_id, <<>>)],
          err |-> NoError]

\* GraphDS::add_edge: missing endpoints are added with value 0, then the edge
\* is pushed on the source's list.  An add_node that fails returns through
\* `?` and leaves the graph as the calls before it made it.
GraphDS_add_edge(g, from, to, weight) ==
    LET a == IF from \in DOMAIN g.node_values THEN [g |-> g, err |-> NoError]
             ELSE GraphDS_add_node(g, from, 0)
        b == IF a.err # NoError THEN a
             ELSE IF to \in DOMAIN a.g.node_values THEN a
             ELSE GraphDS_add_node(a.g, to, 0)
    IN  IF b.err # NoError THEN b
        ELSE [g   |-> [b.g EXCEPT !.edges =
                         MapInsert(@, from,
                                   Append(IF from \in DOMAIN @ THEN @[from] ELSE <<>>,
                                          <<to, weight>>))],
              err |-> NoError]

\* A neighbour loop that looks at the first neighbour only.
GraphDS_bfs_first_neighbor(neighbors, queue, visited) ==
    IF neighbors = <<>> \/ Head(neighbors)[1] \in visited
    THEN [queue |-> queue, visited |-> visited]
    ELSE [queue |-> Append(queue, Head(neighbors)[1]),
          visited |-> visited \cup {Head(neighbors)[1]}]

\* `for &(neighbor, _) in neighbors`: each neighbour not yet visited is marked
\* and queued.
RECURSIVE GraphDS_bfs_neighbors(_, _, _)
GraphDS_bfs_neighbors(neighbors, queue, visited) ==
    IF neighbors = <<>> THEN [queue |-> queue, visited |-> visited]
    ELSE LET neighbor == Head(neighbors)[1]
         IN  IF neighbor \notin visited
             THEN GraphDS_bfs_neighbors(Tail(neighbors), Append(queue, neighbor),
                                        visited \cup {neighbor})
             ELSE GraphDS_bfs_neighbors(Tail(neighbors), queue, visited)

\* `while let Some(node) = queue.pop_front()`
RECURSIVE GraphDS_bfs_loop(_, _, _, _)
GraphDS_bfs_loop(g, queue, visited, result) ==
    IF queue = <<>> THEN result
    ELSE LET node == Head(queue)
             n    == IF node \in DOMAIN g.edges
                     THEN GraphDS_bfs_neighbors(g.edges[node], Tail(queue), visited)
                     ELSE [queue |-> Tail(queue), visited |-> visited]
         IN  GraphDS_bfs_loop(g, n.queue, n.visited, Append(result, node))

\* GraphDS::bfs
GraphDS_bfs(g, start) ==
    IF start \notin DOMAIN g.node_values THEN <<>>
    ELSE GraphDS_bfs_loop(g, <<start>>, {start}, <<>>)

\* OHLCVDS::new
OHLCVDS_new == [data |-> <<>>]

\* An OHLCVEntry; timestamps are kept as naturals (they are only compared),
\* prices and volume as u64 words.
OHLCVEntry(timestamp, open, high, low, close, volume) ==
    [timestamp |-> timestamp, open |-> open, high |-> high, low |-> low,
     close |-> close, volume |-> volume]

\* A search that always answers the end of the vector.
binary_search_end(data, timestamp) == {Len(data)}

\* data.binary_search_by_key(&timestamp, |e| e.timestamp).unwrap_or_else(|e| e)
\* on a vector sorted by timestamp: the 0-based index of a match (which one
\* of several matches is unspecified), or the index where the timestamp
\* keeps the vector sorted.
binary_search_by_key(data, timestamp) ==
    LET matches == {i \in DOMAIN data : data[i].timestamp = timestamp}
    IN  IF matches # {} THEN {i - 1 : i \in matches}
        ELSE {Cardinality({i \in DOMAIN data : data[i].timestamp < timestamp})}

\* Vec::insert(pos, entry), pos 0-based.
VecInsert(data, pos, entry) ==
    SubSeq(data, 1, pos) \o <<entry>> \o SubSeq(data, pos + 1, Len(data))

\* OHLCVDS::add_entry with the search answering pos (always Ok(())).
OHLCVDS_add_entry(d, entry, pos) == [d EXCEPT !.data = VecInsert(@, pos, entry)]

\* The + of calculate_sma: with overflow checks (debug builds) an overflow
\* panics, without them (release builds) it wraps.  None stands for the
\* panic.
SmaAdd(a, b, overflow_checks) ==
    IF overflow_checks THEN u64_checked_add(a, b) ELSE Some(u64_wrapping_add(a, b))

\* The - of calculate_sma.
SmaSub(a, b, overflow_checks) ==
    IF overflow_checks THEN u64_checked_sub(a, b) ELSE Some(u64_wrapping_sub(a, b))

\* `for i in 0..period { sum += self.data[i].close; }`, from index i
\* (0-based) on: the sum, or None for a panic.
RECURSIVE SmaFirstSum(_, _, _, _, _)
SmaFirstSum(data, period, i, sum, overflow_checks) ==
    IF i >= period THEN Some(sum)
    ELSE LET next == SmaAdd(sum, data[i + 1].close, overflow_checks)
         IN  IF next = None THEN None
             ELSE SmaFirstSum(data, period, i + 1, Unwrap(next), overflow_checks)

\* `for i in period..self.data.len()`, from index i (0-based) on: the result
\* vector, or None for a panic.
RECURSIVE SmaRest(_, _, _, _, _, _)
SmaRest(data, period, i, sum, result, overflow_checks) ==
    IF i >= Len(data) THEN Some(result)
    ELSE LET added == SmaAdd(sum, data[i + 1].close, overflow_checks)
         IN  IF added = None THEN None
             ELSE LET next == SmaSub(Unwrap(added), data[i - period + 1].close,
                                     overflow_checks)
                  IN  IF next = None THEN None
                      ELSE SmaRest(data, period, i + 1, Unwrap(next),
                                   Append(result, <<data[i + 1].timestamp,
                                                    u64_div_small(Unwrap(next), period)>>),
                                   overflow_checks)

\* OHLCVDS::calculate_sma: Some(result), or None when the call panics.
OHLCVDS_calculate_sma(d, period, overflow_checks) ==
    IF period = 0 \/ Len(d.data) < period THEN Some(<<>>)
    ELSE LET first == SmaFirstSum(d.data, period, 0, ZeroValue, overflow_checks)
         IN  IF first = None THEN None
             ELSE SmaRest(d.data, period, period, Unwrap(first),
                          <<<<d.data[period].timestamp,
                              u64_div_small(Unwrap(first), period)>>>>,
                          overflow_checks)

\* HypergraphDS::new
HypergraphDS_new == [edges |-> <<>>, node_values |-> <<>>, edge_weights |-> <<>>]

\* HypergraphDS::add_node
HypergraphDS_add_node(h, node_id, value) ==
    [h EXCEPT !.node_values = MapInsert(@, node_id, value)]

\* HypergraphDS::create_hyperedge: both inserts replace what the maps held
\* under edge_id.
HypergraphDS_create_hyperedge(h, edge_id, weight) ==
    [h EXCEPT !.edges = MapInsert(@, edge_id, {}),
              !.edge_weights = MapInsert(@, edge_id, weight)]

\* HypergraphDS::add_node_to_edge: a missing node is created with value 0, a
\* missing edge with weight 1, then the node joins the edge's set.
HypergraphDS_add_node_to_edge(h, edge_id, node_id) ==
    LET a == IF node_id \in DOMAIN h.node_values THEN h
             ELSE HypergraphDS_add_node(h, node_id, 0)
        b == IF edge_id \in DOMAIN a.edges THEN a
             ELSE HypergraphDS_create_hyperedge(a, edge_id, 1)
    IN  [b EXCEPT !.edges[edge_id] = @ \cup {node_id}]

\* HypergraphDS::get_edges_containing_node: the ids collected, as a set (the
\* Vec is in the map's iteration order).
HypergraphDS_get_edges_containing_node(h, node_id) ==
    {edge_id \in DOMAIN h.edges : node_id \in h.edges[edge_id]}

\* DataStructureStore::new
DataStructureStore_new ==
    [btrees |-> <<>>, tries |-> <<>>, graphs |-> <<>>, ohlcvs |-> <<>>,
     hypergraphs |-> <<>>]

\* Vec::resize_with(n, || None) on a vector shorter than n.
ResizeWithNone(vec, n) == vec \o [i \in 1..(n - Len(vec)) |-> None]

\* DataStructureStore::ensure_capacity; field is the vector of ds_type.
DataStructureStore_ensure_capacity(ds, field, id) ==
    IF id >= Len(ds[field])
    THEN [ds EXCEPT ![field] = ResizeWithNone(@, id + 1)]
    ELSE ds

(***************************************************************************)
(* ReentrancyGuard and VM construction (core.rs)                           *)
(***************************************************************************)

\* ReentrancyGuard::new
ReentrancyGuard_new == [entered |-> FALSE]

\* A guard that lets every call in.
ReentrancyGuard_enter_always(g) == Some([g EXCEPT !.entered = TRUE])

\* ReentrancyGuard::enter: the guard afterwards, or None for
\* Err(ReentrancyDetected).
ReentrancyGuard_enter(g) == IF g.entered THEN None ELSE Some([g EXCEPT !.entered = TRUE])

\* ReentrancyGuard::exit
ReentrancyGuard_exit(g) == [g EXCEPT !.entered = FALSE]

\* The gas limit VM::new hard-codes.
INITIAL_GAS == 200000

\* struct ExecutionTrace (debug.rs)
ExecutionTrace(pc, opcode, gas_used_, gas_remaining, stack_depth, memory_size) ==
    [pc |-> pc, opcode |-> opcode, gas_used |-> gas_used_,
     gas_remaining |-> gas_remaining, stack_depth |-> stack_depth,
     memory_size |-> memory_size]

\* The tracer VM::new installs, seen from outside: the latest record it was
\* handed (DefaultTracer itself keeps nothing).
Tracer_new == [trace |-> None]

\* A tracer call that hands over the record of the state after the opcode's
\* pc advance: the pc is one too far.
Tracer_trace_execution_late(t, trace) ==
    [t EXCEPT !.trace = Some([trace EXCEPT !.pc = @ + 1])]

\* Tracer::trace_execution
Tracer_trace_execution(t, trace) == [t EXCEPT !.trace = Some(trace)]

VM_new ==
    [pc |-> 0,
     gas |-> Gas_new(INITIAL_GAS),
     stack |-> Stack_new,
     memory |-> Memory_new,
     data_structures |-> DataStructureStore_new,
     reentrancy_guard |-> ReentrancyGuard_new,
     tracer |-> Tracer_new]

\* VM::gas_used: initial_gas - remaining on u64; None where the subtraction
\* would underflow.
gas_used(m) ==
    LET initial_gas == INITIAL_GAS
    IN  IF Gas_remaining(m.gas) > initial_gas THEN None
        ELSE Some(initial_gas - Gas_remaining(m.gas))

(***************************************************************************)
(* Errors and handler outcomes                                             *)
(***************************************************************************)

\* A VMError, before `?` or into() converts it into the ProgramError execute
\* returns.
VMError(variant) == [type |-> "VMError", variant |-> variant, code |-> None]

\* ProgramError::Custom(code), code a u32 as four little-endian bytes.
Custom(code) == [type |-> "ProgramError", variant |-> "Custom", code |-> code]

\* No error.
NoErr == [type |-> "None", variant |-> "None", code |-> None]

\* ProgramError::InvalidInstructionData
InvalidInstructionData ==
    [type |-> "ProgramError", variant |-> "InvalidInstructionData", code |-> None]

\* The discriminants of enum VMError, in the order of declaration.
\* DivisionByZero, which the Mod arm names, is not declared by the enum; it
\* is taken as one more variant after the declared ones.
VMErrorDiscriminant ==
    [StackOverflow |-> 0, StackUnderflow |-> 1, InvalidMemoryAccess |-> 2,
     OutOfGas |-> 3, InvalidInstruction |-> 4, InvalidAccount |-> 5,
     ArithmeticOverflow |-> 6, ReentrancyDetected |-> 7,
     InvalidDataStructureOperation |-> 8, DivisionByZero |-> 9]

\* impl From<VMError> for ProgramError: Custom(e as u32); a ProgramError
\* passes through `?` as it is.
ProgramError_from(e) ==
    IF e.type = "VMError" THEN Custom(<<VMErrorDiscriminant[e.variant], 0, 0, 0>>) ELSE e

\* The handler ran to its end: the loop goes on.
Continue(m, acc, lg) ==
    [vm |-> m, accounts |-> acc, log |-> lg, kind |-> "Continue", value |-> None, err |-> NoErr]

\* `break`
Break(m, acc, lg) ==
    [vm |-> m, accounts |-> acc, log |-> lg, kind |-> "Break", value |-> None, err |-> NoErr]

\* `return Ok(Some(value))`
ReturnSome(m, acc, lg, value) ==
    [vm |-> m, accounts |-> acc, log |-> lg, kind |-> "Return", value |-> value, err |-> NoErr]

\* `return Err(e)`
Fail(m, acc, lg, e) ==
    [vm |-> m, accounts |-> acc, log |-> lg, kind |-> "Err", value |-> None, err |-> e]

\* The thread panics (an index out of bounds, a division by zero, unwrap on
\* None).
Panic(m, acc, lg) ==
    [vm |-> m, accounts |-> acc, log |-> lg, kind |-> "Panic", value |-> None, err |-> NoErr]

\* The outcome of a failed stack operation: its VMError through `?`, or the
\* panic of Stack::pop's unwrap.
FailStack(m, acc, lg, e) ==
    IF e = "Panic" THEN Panic(m, acc, lg) ELSE Fail(m, acc, lg, VMError(e))

\* `self.stack.push(value)?` as the last statement of a handler.
PushAndContinue(m, acc, lg, s, value) ==
    LET p == Stack_push(s, value)
    IN  IF p.err # NoError THEN FailStack([m EXCEPT !.stack = p.s], acc, lg, p.err)
        ELSE Continue([m EXCEPT !.stack = p.s], acc, lg)

(***************************************************************************)
(* The opcode handlers of VM::execute (core.rs).  Each takes the VM after  *)
(* the base gas was charged and pc advanced past the opcode byte, the      *)
(* account view, the log and the bytecode; pc is 0-based, sequences are    *)
(* 1-based, so code[pc] of the source is code[m.pc + 1] here.              *)
(***************************************************************************)

\* OpCode::Nop
Op_Nop(m, acc, lg, code) == Continue(m, acc, lg)

\* OpCode::Push1
Op_Push1(m, acc, lg, code) ==
    IF m.pc >= Len(code) THEN Fail(m, acc, lg, VMError("InvalidInstruction"))
    ELSE LET value == U64(code[m.pc + 1])
             p     == Stack_push(m.stack, value)
         IN  IF p.err # NoError THEN FailStack(m, acc, lg, p.err)
             ELSE Continue([m EXCEPT !.stack = p.s, !.pc = @ + 1], acc, lg)

\* VM::fetch_u64: [pc, value]; value is None for Err(InvalidInstruction).
\* u64::from_le_bytes is the identity on the byte representation of a word.
fetch_u64(m, code) ==
    IF m.pc + 8 > Len(code) THEN [pc |-> m.pc, value |-> None]
    ELSE [pc |-> m.pc + 8, value |-> SubSeq(code, m.pc + 1, m.pc + 8)]

\* OpCode::Push8
Op_Push8(m, acc, lg, code) ==
    LET f == fetch_u64(m, code)
    IN  IF f.value = None THEN Fail(m, acc, lg, VMError("InvalidInstruction"))
        ELSE PushAndContinue([m EXCEPT !.pc = f.pc], acc, lg, m.stack, f.value)

\* OpCode::Pop
Op_Pop(m, acc, lg, code) ==
    LET p == Stack_pop(m.stack)
    IN  IF p.err # NoError THEN FailStack([m EXCEPT !.stack = p.s], acc, lg, p.err)
        ELSE Continue([m EXCEPT !.stack = p.s], acc, lg)

\* OpCode::Dup (code[self.pc] is not bounds-checked: past the end it panics)
Op_Dup(m, acc, lg, code) ==
    IF m.pc >= Len(code) THEN Panic(m, acc, lg)
    ELSE LET n == code[m.pc + 1]
             d == Stack_dup(m.stack, n)
         IN  IF d.err # NoError THEN FailStack(m, acc, lg, d.err)
             ELSE Continue([m EXCEPT !.stack = d.s, !.pc = @ + 1], acc, lg)

\* OpCode::Swap (code[self.pc] is not bounds-checked: past the end it panics)
Op_Swap(m, acc, lg, code) ==
    IF m.pc >= Len(code) THEN Panic(m, acc, lg)
    ELSE LET n == code[m.pc + 1]
             d == Stack_swap(m.stack, n)
         IN  IF d.err # NoError THEN FailStack(m, acc, lg, d.err)
             ELSE Continue([m EXCEPT !.stack = d.s, !.pc = @ + 1], acc, lg)

\* The shape shared by Add, Sub, Mul and Div: pop b, pop a, apply the checked
\* operation, fail with ArithmeticOverflow where it yields None, else push.
CheckedBinary(m, acc, lg, r, s) ==
    IF r = None THEN Fail([m EXCEPT !.stack = s], acc, lg, VMError("ArithmeticOverflow"))
    ELSE PushAndContinue(m, acc, lg, s, Unwrap(r))

\* OpCode::Add
Op_Add(m, acc, lg, code) ==
    LET p == PopN(m.stack, 2)
    IN  IF p.err # NoError THEN FailStack([m EXCEPT !.stack = p.s], acc, lg, p.err)
        ELSE CheckedBinary(m, acc, lg, u64_checked_add(p.vals[2], p.vals[1]), p.s)

\* OpCode::Sub
Op_Sub(m, acc, lg, code) ==
    LET p == PopN(m.stack, 2)
    IN  IF p.err # NoError THEN FailStack([m EXCEPT !.stack = p.s], acc, lg, p.err)
        ELSE CheckedBinary(m, acc, lg, u64_checked_sub(p.vals[2], p.vals[1]), p.s)

\* OpCode::Mul
Op_Mul(m, acc, lg, code) ==
    LET p == PopN(m.stack, 2)
    IN  IF p.err # NoError THEN FailStack([m EXCEPT !.stack = p.s], acc, lg, p.err)
        ELSE CheckedBinary(m, acc, lg, u64_checked_mul(p.vals[2], p.vals[1]), p.s)

\* OpCode::Div (Value::checked_div is None for a zero divisor)
Op_Div(m, acc, lg, code) ==
    LET p == PopN(m.stack, 2)
    IN  IF p.err # NoError THEN FailStack([m EXCEPT !.stack = p.s], acc, lg, p.err)
        ELSE CheckedBinary(m, acc, lg, u64_checked_div(p.vals[2], p.vals[1]), p.s)

\* OpCode::Mod
Op_Mod(m, acc, lg, code) ==
    LET p == PopN(m.stack, 2)
    IN  IF p.err # NoError THEN FailStack([m EXCEPT !.stack = p.s], acc, lg, p.err)
        ELSE IF p.vals[1] = ZeroValue
        THEN Fail([m EXCEPT !.stack = p.s], acc, lg, VMError("DivisionByZero"))
        ELSE PushAndContinue(m, acc, lg, p.s, u64_rem(p.vals[2], p.vals[1]))

\* OpCode::MulDiv: pops c, b and a; the product and the quotient are u128
\* (16 digits); the division panics on c = 0.
Op_MulDiv(m, acc, lg, code) ==
    LET p == PopN(m.stack, 3)
    IN  IF p.err # NoError THEN FailStack([m EXCEPT !.stack = p.s], acc, lg, p.err)
        ELSE
        LET c   == p.vals[1]
            b   == p.vals[2]
            a   == p.vals[3]
            mul == MulFull(a, b)
        IN  IF c = ZeroValue THEN Panic([m EXCEPT !.stack = p.s], acc, lg)
            ELSE
            LET div == DivMod(mul, c)[1]
            IN  IF \E i \in (WordBytes + 1)..(2 * WordBytes) : div[i] # 0
                THEN Fail([m EXCEPT !.stack = p.s], acc, lg, VMError("ArithmeticOverflow"))
                ELSE PushAndContinue(m, acc, lg, p.s, [i \in 1..WordBytes |-> div[i]])

\* The `while exp > 0` loop of the Exp arm: Some(result), or None where a
\* checked_mul overflows.
RECURSIVE Exp_loop(_, _, _)
Exp_loop(result, base_power, exp) ==
    IF exp = ZeroValue THEN Some(result)
    ELSE LET r == IF exp[1] % 2 = 1 THEN u64_checked_mul(result, base_power)
                                     ELSE Some(result)
         IN  IF r = None THEN None
             ELSE LET sq == u64_checked_mul(base_power, base_power)
                  IN  IF sq = None THEN None
                      ELSE Exp_loop(Unwrap(r), Unwrap(sq), u64_div_small(exp, 2))

\* OpCode::Exp: pops the exponent and the base.
Op_Exp(m, acc, lg, code) ==
    LET p == PopN(m.stack, 2)
    IN  IF p.err # NoError THEN FailStack([m EXCEPT !.stack = p.s], acc, lg, p.err)
        ELSE
        LET exponent == p.vals[1]
            base     == p.vals[2]
        IN  IF DigitsLt(U64(64), exponent) /\ DigitsLt(U64(1), base)
            THEN Fail([m EXCEPT !.stack = p.s], acc, lg, VMError("ArithmeticOverflow"))
            ELSE LET result == Exp_loop(U64(1), base, exponent)
                 IN  IF result = None
                     THEN Fail([m EXCEPT !.stack = p.s], acc, lg,
                               VMError("ArithmeticOverflow"))
                     ELSE PushAndContinue(m, acc, lg, p.s, Unwrap(result))

\* `v as usize` for a word below 2^31.
AsUsize(v) == ToNat(v)

\* OpCode::Load
Op_Load(m, acc, lg, code) ==
    LET p == Stack_pop(m.stack)
    IN  IF p.err # NoError THEN FailStack([m EXCEPT !.stack = p.s], acc, lg, p.err)
        ELSE LET data == IF IsSmall(p.v) THEN Memory_load(m.memory, AsUsize(p.v), 8)
                         ELSE None
             IN  IF data = None
                 THEN Fail([m EXCEPT !.stack = p.s], acc, lg, VMError("InvalidMemoryAccess"))
                 ELSE PushAndContinue(m, acc, lg, p.s, Unwrap(data))

\* OpCode::Store (u64::to_le_bytes is the identity on the representation).
\* An offset of 2^31 or more asks for a buffer of at least 4 GiB: the
\* allocation fails and the process aborts.
Op_Store(m, acc, lg, code) ==
    LET p == PopN(m.stack, 2)
    IN  IF p.err # NoError THEN FailStack([m EXCEPT !.stack = p.s], acc, lg, p.err)
        ELSE IF ~IsSmall(p.vals[1]) THEN Panic([m EXCEPT !.stack = p.s], acc, lg)
        ELSE Continue([m EXCEPT !.stack = p.s,
                                !.memory = Memory_store(@, AsUsize(p.vals[1]), p.vals[2])],
                      acc, lg)

\* The smaller of two naturals (usize::min).
Min(a, b) == IF a <= b THEN a ELSE b

\* OpCode::StoreN: pops len, offset and value and stores the value's first
\* min(len, 8) bytes.
Op_StoreN(m, acc, lg, code) ==
    LET p == PopN(m.stack, 3)
    IN  IF p.err # NoError THEN FailStack([m EXCEPT !.stack = p.s], acc, lg, p.err)
        ELSE IF ~IsSmall(p.vals[2]) THEN Panic([m EXCEPT !.stack = p.s], acc, lg)
        ELSE LET len == IF IsSmall(p.vals[1]) THEN Min(AsUsize(p.vals[1]), 8) ELSE 8
             IN  Continue([m EXCEPT !.stack = p.s,
                                    !.memory = Memory_store(@, AsUsize(p.vals[2]),
                                                            SubSeq(p.vals[3], 1, len))],
                          acc, lg)

\* OpCode::Mstore8: pops offset and value and stores the value's low byte.
Op_Mstore8(m, acc, lg, code) ==
    LET p == PopN(m.stack, 2)
    IN  IF p.err # NoError THEN FailStack([m EXCEPT !.stack = p.s], acc, lg, p.err)
        ELSE IF ~IsSmall(p.vals[1]) THEN Panic([m EXCEPT !.stack = p.s], acc, lg)
        ELSE Continue([m EXCEPT !.stack = p.s,
                                !.memory = Memory_store8(@, AsUsize(p.vals[1]), p.vals[2][1])],
                      acc, lg)

\* OpCode::Msize
Op_Msize(m, acc, lg, code) ==
    PushAndContinue(m, acc, lg, m.stack, U64(Memory_size(m.memory)))

\* OpCode::Jump
Op_Jump(m, acc, lg, code) ==
    LET p == Stack_pop(m.stack)
    IN  IF p.err # NoError THEN FailStack([m EXCEPT !.stack = p.s], acc, lg, p.err)
        ELSE IF UsizeGe(p.v, Len(code))
        THEN Fail([m EXCEPT !.stack = p.s], acc, lg, VMError("InvalidInstruction"))
        ELSE Continue([m EXCEPT !.stack = p.s, !.pc = AsUsize(p.v)], acc, lg)

\* OpCode::JumpI
Op_JumpI(m, acc, lg, code) ==
    LET p == PopN(m.stack, 2)
    IN  IF p.err # NoError THEN FailStack([m EXCEPT !.stack = p.s], acc, lg, p.err)
        ELSE IF p.vals[2] # ZeroValue
        THEN IF UsizeGe(p.vals[1], Len(code))
             THEN Fail([m EXCEPT !.stack = p.s], acc, lg, VMError("InvalidInstruction"))
             ELSE Continue([m EXCEPT !.stack = p.s, !.pc = AsUsize(p.vals[1])], acc, lg)
        ELSE Continue([m EXCEPT !.stack = p.s], acc, lg)

\* OpCode::Call (enter_function is Stack::push_frame)
Op_Call(m, acc, lg, code) ==
    LET p == Stack_pop(m.stack)
    IN  IF p.err # NoError THEN FailStack([m EXCEPT !.stack = p.s], acc, lg, p.err)
        ELSE IF UsizeGe(p.v, Len(code))
        THEN Fail([m EXCEPT !.stack = p.s], acc, lg, VMError("InvalidInstruction"))
        ELSE LET f == Stack_push_frame(p.s)
             IN  IF f.err # NoError THEN FailStack([m EXCEPT !.stack = f.s], acc, lg, f.err)
                 ELSE Continue([m EXCEPT !.stack = f.s, !.pc = AsUsize(p.v)], acc, lg)

\* OpCode::Return (exit_function is Stack::pop_frame)
Op_Return(m, acc, lg, code) ==
    LET p == Stack_pop(m.stack)
    IN  IF p.err # NoError THEN FailStack([m EXCEPT !.stack = p.s], acc, lg, p.err)
        ELSE LET f == Stack_pop_frame(p.s)
             IN  IF f.err # NoError THEN FailStack([m EXCEPT !.stack = f.s], acc, lg, f.err)
                 ELSE ReturnSome([m EXCEPT !.stack = f.s], acc, lg, p.v)

\* OpCode::Revert (error_code as u32 keeps the four low bytes)
Op_Revert(m, acc, lg, code) ==
    LET p == Stack_pop(m.stack)
    IN  IF p.err # NoError THEN FailStack([m EXCEPT !.stack = p.s], acc, lg, p.err)
        ELSE Fail([m EXCEPT !.stack = p.s], acc, lg, Custom(SubSeq(p.v, 1, 4)))

\* OpCode::Halt
Op_Halt(m, acc, lg, code) == Break(m, acc, lg)

\* accounts[idx] of the source: the account at a 0-based index.
AccountAt(acc, idx) == acc[idx + 1]

\* A transfer that reads both balances before it writes either.
Op_Transfer_stale(m, acc, lg, code) ==
    Let(PopN(m.stack, 3), LAMBDA p :
        IF p.err # NoError THEN FailStack([m EXCEPT !.stack = p.s], acc, lg, p.err)
        ELSE
        LET amount   == p.vals[1]
            dest_idx == p.vals[2]
            src_idx  == p.vals[3]
            m1       == [m EXCEPT !.stack = p.s]
        IN  IF UsizeGe(src_idx, Len(acc)) \/ UsizeGe(dest_idx, Len(acc))
            THEN Fail(m1, acc, lg, VMError("InvalidAccount"))
            ELSE
            LET si == AsUsize(src_idx) + 1
                di == AsUsize(dest_idx) + 1
            IN  Let(u64_checked_sub(acc[si].lamports, amount), LAMBDA debt :
                Let(u64_checked_add(acc[di].lamports, amount), LAMBDA cred :
                    IF debt = None \/ cred = None
                    THEN Fail(m1, acc, lg, VMError("ArithmeticOverflow"))
                    ELSE Continue(m1, [[acc EXCEPT ![si].lamports = Unwrap(debt)]
                                           EXCEPT ![di].lamports = Unwrap(cred)], lg))))

\* OpCode::Transfer: the source is debited and written before the
\* destination's balance is read and credited.
Op_Transfer(m, acc, lg, code) ==
    Let(PopN(m.stack, 3), LAMBDA p :
        IF p.err # NoError THEN FailStack([m EXCEPT !.stack = p.s], acc, lg, p.err)
        ELSE
        LET amount   == p.vals[1]
            dest_idx == p.vals[2]
            src_idx  == p.vals[3]
            m1       == [m EXCEPT !.stack = p.s]
        IN  IF UsizeGe(src_idx, Len(acc)) \/ UsizeGe(dest_idx, Len(acc))
            THEN Fail(m1, acc, lg, VMError("InvalidAccount"))
            ELSE
            LET si == AsUsize(src_idx) + 1
                di == AsUsize(dest_idx) + 1
            IN  Let(u64_checked_sub(acc[si].lamports, amount), LAMBDA debt :
                    IF debt = None THEN Fail(m1, acc, lg, VMError("ArithmeticOverflow"))
                    ELSE
                    Let([acc EXCEPT ![si].lamports = Unwrap(debt)], LAMBDA acc1 :
                    Let(u64_checked_add(acc1[di].lamports, amount), LAMBDA cred :
                        IF cred = None
                        THEN Fail(m1, acc1, lg, VMError("ArithmeticOverflow"))
                        ELSE Continue(m1, [acc1 EXCEPT ![di].lamports = Unwrap(cred)], lg)))))

\* OpCode::SPLTransfer
Op_SPLTransfer(m, acc, lg, code) == Fail(m, acc, lg, InvalidInstructionData)

\* OpCode::CPI
Op_CPI(m, acc, lg, code) == Fail(m, acc, lg, InvalidInstructionData)

\* OpCode::Log (msg! appends one record to the host log)
Op_Log(m, acc, lg, code) ==
    LET p == Stack_pop(m.stack)
    IN  IF p.err # NoError THEN FailStack([m EXCEPT !.stack = p.s], acc, lg, p.err)
        ELSE Continue([m EXCEPT !.stack = p.s], acc, Append(lg, p.v))

\* The word an account query pushes for account a: its balance, the first
\* eight bytes of its owner key (little-endian), or a flag as 1 or 0.
AccountField(a, field) ==
    CASE field = "lamports" -> a.lamports
      [] field = "owner" -> a.owner
      [] field = "is_writable" -> IF a.is_writable THEN U64(1) ELSE U64(0)
      [] field = "is_signer" -> IF a.is_signer THEN U64(1) ELSE U64(0)

\* The shape shared by GetBalance, GetOwner, IsWritable and IsSigner: pop an
\* account index, fail with InvalidAccount out of range, else push the field.
AccountQuery(m, acc, lg, field) ==
    LET p == Stack_pop(m.stack)
    IN  IF p.err # NoError THEN FailStack([m EXCEPT !.stack = p.s], acc, lg, p.err)
        ELSE IF UsizeGe(p.v, Len(acc))
        THEN Fail([m EXCEPT !.stack = p.s], acc, lg, VMError("InvalidAccount"))
        ELSE PushAndContinue(m, acc, lg, p.s,
                             AccountField(AccountAt(acc, AsUsize(p.v)), field))

\* OpCode::GetBalance
Op_GetBalance(m, acc, lg, code) == AccountQuery(m, acc, lg, "lamports")

\* OpCode::GetOwner
Op_GetOwner(m, acc, lg, code) == AccountQuery(m, acc, lg, "owner")

\* OpCode::IsWritable
Op_IsWritable(m, acc, lg, code) == AccountQuery(m, acc, lg, "is_writable")

\* OpCode::IsSigner
Op_IsSigner(m, acc, lg, code) == AccountQuery(m, acc, lg, "is_signer")

\* OpCode::BTreeCreate (no ensure_capacity: the handle must already be in the
\* vector)
Op_BTreeCreate(m, acc, lg, code) ==
    LET p == Stack_pop(m.stack)
    IN  IF p.err # NoError THEN FailStack([m EXCEPT !.stack = p.s], acc, lg, p.err)
        ELSE IF UsizeGe(p.v, Len(m.data_structures.btrees))
        THEN Fail([m EXCEPT !.stack = p.s], acc, lg,
                  VMError("InvalidDataStructureOperation"))
        ELSE Continue([m EXCEPT !.stack = p.s,
                                !.data_structures.btrees[AsUsize(p.v) + 1] = Some(BTreeMapDS_new)],
                      acc, lg)

\* OpCode::TrieCreate.  A handle of 2^31 or more asks for a vector of at
\* least that many slots: the allocation fails and the process aborts.
Op_TrieCreate(m, acc, lg, code) ==
    LET p == Stack_pop(m.stack)
    IN  IF p.err # NoError THEN FailStack([m EXCEPT !.stack = p.s], acc, lg, p.err)
        ELSE IF ~IsSmall(p.v) THEN Panic([m EXCEPT !.stack = p.s], acc, lg)
        ELSE LET id == AsUsize(p.v)
                 ds == DataStructureStore_ensure_capacity(m.data_structures, "tries", id)
             IN  Continue([m EXCEPT !.stack = p.s,
                                    !.data_structures = [ds EXCEPT !.tries[id + 1] = Some(TrieDS_new)]],
                          acc, lg)

\* The create arms that call ensure_capacity first (TrieCreate, OhlcvCreate,
\* HyperCreate); field is the handle type's vector, fresh its new() value.  A
\* handle of 2^31 or more asks for a vector of at least that many slots: the
\* allocation fails and the process aborts.
CreateWithCapacity(m, acc, lg, field, fresh) ==
    LET p == Stack_pop(m.stack)
    IN  IF p.err # NoError THEN FailStack([m EXCEPT !.stack = p.s], acc, lg, p.err)
        ELSE IF ~IsSmall(p.v) THEN Panic([m EXCEPT !.stack = p.s], acc, lg)
        ELSE LET id == AsUsize(p.v)
                 ds == DataStructureStore_ensure_capacity(m.data_structures, field, id)
             IN  Continue([m EXCEPT !.stack = p.s,
                                    !.data_structures = [ds EXCEPT ![field][id + 1] = Some(fresh)]],
                          acc, lg)

\* The create arms that check the handle against the vector's length
\* (BTreeCreate, GraphCreate) and never grow the vector.
CreateInPlace(m, acc, lg, field, fresh) ==
    LET p == Stack_pop(m.stack)
    IN  IF p.err # NoError THEN FailStack([m EXCEPT !.stack = p.s], acc, lg, p.err)
        ELSE IF UsizeGe(p.v, Len(m.data_structures[field]))
        THEN Fail([m EXCEPT !.stack = p.s], acc, lg,
                  VMError("InvalidDataStructureOperation"))
        ELSE Continue([m EXCEPT !.stack = p.s,
                                !.data_structures[field][AsUsize(p.v) + 1] = Some(fresh)],
                      acc, lg)

\* OpCode::GraphCreate
Op_GraphCreate(m, acc, lg, code) == CreateInPlace(m, acc, lg, "graphs", GraphDS_new)

\* OpCode::OhlcvCreate
Op_OhlcvCreate(m, acc, lg, code) == CreateWithCapacity(m, acc, lg, "ohlcvs", OHLCVDS_new)

\* OpCode::HyperCreate
Op_HyperCreate(m, acc, lg, code) ==
    CreateWithCapacity(m, acc, lg, "hypergraphs", HypergraphDS_new)

\* OpCode::BTreeInsert: pops value, key and handle; the handle must be in the
\* vector and hold a map; pushes the key's old value or 0.
Op_BTreeInsert(m, acc, lg, code) ==
    LET p == PopN(m.stack, 3)
        m1 == [m EXCEPT !.stack = p.s]
    IN  IF p.err # NoError THEN FailStack(m1, acc, lg, p.err)
        ELSE LET value == p.vals[1]
                 key   == p.vals[2]
                 id    == p.vals[3]
             IN  IF UsizeGe(id, Len(m.data_structures.btrees))
                 THEN Fail(m1, acc, lg, VMError("InvalidDataStructureOperation"))
                 ELSE LET slot == m.data_structures.btrees[AsUsize(id) + 1]
                      IN  IF slot = None
                          THEN Fail(m1, acc, lg, VMError("InvalidDataStructureOperation"))
                          ELSE LET r == BTreeMapDS_insert(Unwrap(slot), key, value)
                               IN  PushAndContinue(
                                     [m1 EXCEPT !.data_structures.btrees[AsUsize(id) + 1] = Some(r.b)],
                                     acc, lg, p.s,
                                     IF r.old = None THEN ZeroValue ELSE Unwrap(r.old))

\* OpCode::BTreeGet: pops key and handle; the handle must be in the vector and
\* hold a map; pushes the key's value or 0.
Op_BTreeGet(m, acc, lg, code) ==
    LET p == PopN(m.stack, 2)
        m1 == [m EXCEPT !.stack = p.s]
    IN  IF p.err # NoError THEN FailStack(m1, acc, lg, p.err)
        ELSE LET key == p.vals[1]
                 id  == p.vals[2]
             IN  IF UsizeGe(id, Len(m.data_structures.btrees))
                 THEN Fail(m1, acc, lg, VMError("InvalidDataStructureOperation"))
                 ELSE LET slot == m.data_structures.btrees[AsUsize(id) + 1]
                      IN  IF slot = None
                          THEN Fail(m1, acc, lg, VMError("InvalidDataStructureOperation"))
                          ELSE LET r == BTreeMapDS_get(Unwrap(slot), key)
                               IN  PushAndContinue(m1, acc, lg, p.s,
                                     IF r = None THEN ZeroValue ELSE Unwrap(r))

\* memory.load(key_ptr, key_len) of the trie arms: the key bytes, or None
\* where the bounds check fails (the buffer is shorter than 2^31 bytes).
LoadKey(mem, key_ptr, key_len) ==
    IF IsSmall(key_ptr) /\ IsSmall(key_len)
    THEN Memory_load(mem, AsUsize(key_ptr), AsUsize(key_len))
    ELSE None

\* OpCode::TrieInsert: pops value, key_len, key_ptr and handle; grows the
\* vector, reads the key and inserts it where the slot holds a trie.
Op_TrieInsert(m, acc, lg, code) ==
    LET p == PopN(m.stack, 4)
        m1 == [m EXCEPT !.stack = p.s]
    IN  IF p.err # NoError THEN FailStack(m1, acc, lg, p.err)
        ELSE IF ~IsSmall(p.vals[4]) THEN Panic(m1, acc, lg)
        ELSE
        LET value == p.vals[1]
            id    == AsUsize(p.vals[4])
            ds    == DataStructureStore_ensure_capacity(m.data_structures, "tries", id)
            m2    == [m1 EXCEPT !.data_structures = ds]
            key   == LoadKey(m.memory, p.vals[3], p.vals[2])
        IN  IF key = None THEN Fail(m2, acc, lg, VMError("InvalidMemoryAccess"))
            ELSE IF ds.tries[id + 1] = None
            THEN Fail(m2, acc, lg, VMError("InvalidDataStructureOperation"))
            ELSE Continue([m2 EXCEPT !.data_structures.tries[id + 1] =
                                        Some(TrieDS_insert(Unwrap(@), Unwrap(key), value))],
                          acc, lg)

\* The shape shared by TrieGet and TrieContains: pops key_len, key_ptr and
\* handle, rejects a key length of 0, grows the vector, reads the key and
\* pushes answer(trie, key) where the slot holds a trie.
TrieQuery(m, acc, lg, answer(_, _)) ==
    LET p == PopN(m.stack, 3)
        m1 == [m EXCEPT !.stack = p.s]
    IN  IF p.err # NoError THEN FailStack(m1, acc, lg, p.err)
        ELSE IF p.vals[1] = ZeroValue
        THEN Fail(m1, acc, lg, VMError("InvalidDataStructureOperation"))
        ELSE IF ~IsSmall(p.vals[3]) THEN Panic(m1, acc, lg)
        ELSE
        LET id  == AsUsize(p.vals[3])
            ds  == DataStructureStore_ensure_capacity(m.data_structures, "tries", id)
            m2  == [m1 EXCEPT !.data_structures = ds]
            key == LoadKey(m.memory, p.vals[2], p.vals[1])
        IN  IF key = None \/ ds.tries[id + 1] = None
            THEN Fail(m2, acc, lg, VMError("InvalidDataStructureOperation"))
            ELSE PushAndContinue(m2, acc, lg, p.s,
                                 answer(Unwrap(ds.tries[id + 1]), Unwrap(key)))

\* OpCode::TrieGet: pushes the key's value, or 0 where the trie has none.
Op_TrieGet(m, acc, lg, code) ==
    TrieQuery(m, acc, lg,
              LAMBDA trie, key : IF TrieDS_get(trie, key) = None THEN ZeroValue
                                 ELSE Unwrap(TrieDS_get(trie, key)))

\* OpCode::TrieContains: pushes 1 or 0.
Op_TrieContains(m, acc, lg, code) ==
    TrieQuery(m, acc, lg,
              LAMBDA trie, key : IF TrieDS_contains(trie, key) THEN U64(1) ELSE ZeroValue)

\* OpCode::BTreeClear: ensure_capacity grows the vector with None slots, then
\* the slot must hold a map.
Op_BTreeClear(m, acc, lg, code) ==
    LET p == Stack_pop(m.stack)
    IN  IF p.err # NoError THEN FailStack([m EXCEPT !.stack = p.s], acc, lg, p.err)
        ELSE IF ~IsSmall(p.v) THEN Panic([m EXCEPT !.stack = p.s], acc, lg)
        ELSE LET id   == AsUsize(p.v)
                 ds   == DataStructureStore_ensure_capacity(m.data_structures, "btrees", id)
                 m1   == [m EXCEPT !.stack = p.s, !.data_structures = ds]
                 slot == ds.btrees[id + 1]
             IN  IF slot = None
                 THEN Fail(m1, acc, lg, VMError("InvalidDataStructureOperation"))
                 ELSE Continue([m1 EXCEPT !.data_structures.btrees[id + 1] =
                                              Some(BTreeMapDS_clear(Unwrap(slot)))],
                               acc, lg)

\* seq from its last element to its first (`.iter().rev()`).
Reverse(seq) == [i \in 1..Len(seq) |-> seq[Len(seq) - i + 1]]

\* `self.stack.push(value)?` for each of values in turn: the stack, and
\* NoError or the error of the push that failed.
RECURSIVE PushEach(_, _)
PushEach(s, values) ==
    IF values = <<>> THEN [s |-> s, err |-> NoError]
    ELSE Let(Stack_push(s, Head(values)), LAMBDA p :
             IF p.err # NoError THEN [s |-> p.s, err |-> p.err]
             ELSE PushEach(p.s, Tail(values)))

\* The values the listing opcodes push for a vector of pairs: its length,
\* then, from the last pair to the first, the pair's second component and
\* its first.
RECURSIVE PairsFromLast(_)
PairsFromLast(pairs) ==
    IF pairs = <<>> THEN <<>>
    ELSE PairsFromLast(Tail(pairs)) \o <<Head(pairs)[2], Head(pairs)[1]>>

\* The pops and checks shared by GraphGetNeighbors, GraphBfs and OhlcvSma:
\* the argument is popped, then the handle, which is checked against the
\* length of the vector `field`.  The stack after the pops, the stack error
\* or NoError, the argument, and the slot's structure (None for a handle
\* past the vector's end or an empty slot).
ListOperands(m, field) ==
    Let(PopN(m.stack, 2), LAMBDA p :
        [s    |-> p.s,
         err  |-> p.err,
         arg  |-> IF p.err = NoError THEN p.vals[1] ELSE ZeroValue,
         slot |-> IF p.err # NoError THEN None
                  ELSE IF UsizeGe(p.vals[2], Len(m.data_structures[field])) THEN None
                  ELSE m.data_structures[field][AsUsize(p.vals[2]) + 1]])

\* The pushes that end a listing opcode, each through `?`.
PushEachAndContinue(m, acc, lg, s, values) ==
    Let(PushEach(s, values), LAMBDA q :
        IF q.err # NoError THEN FailStack([m EXCEPT !.stack = q.s], acc, lg, q.err)
        ELSE Continue([m EXCEPT !.stack = q.s], acc, lg))

\* GraphDS::get_neighbors
GraphDS_get_neighbors(g, node_id) ==
    IF node_id \in DOMAIN g.edges THEN g.edges[node_id] ELSE <<>>

\* OpCode::GraphAddEdge: pops weight, to, from and handle.
Op_GraphAddEdge(m, acc, lg, code) ==
    Let(PopN(m.stack, 4), LAMBDA p :
    Let([m EXCEPT !.stack = p.s], LAMBDA m1 :
        IF p.err # NoError THEN FailStack(m1, acc, lg, p.err)
        ELSE IF UsizeGe(p.vals[4], Len(m.data_structures.graphs))
        THEN Fail(m1, acc, lg, VMError("InvalidDataStructureOperation"))
        ELSE IF m.data_structures.graphs[AsUsize(p.vals[4]) + 1] = None
        THEN Fail(m1, acc, lg, VMError("InvalidDataStructureOperation"))
        ELSE Let(GraphDS_add_edge(Unwrap(m.data_structures.graphs[AsUsize(p.vals[4]) + 1]),
                                  p.vals[3], p.vals[2], p.vals[1]), LAMBDA r :
             Let([m1 EXCEPT !.data_structures.graphs[AsUsize(p.vals[4]) + 1] = Some(r.g)],
                 LAMBDA m2 :
                 IF r.err # NoError THEN Fail(m2, acc, lg, VMError(r.err))
                 ELSE Continue(m2, acc, lg)))))

\* OpCode::GraphGetNeighbors: pushes the number of neighbours, then weight
\* and neighbour of each pair from the last to the first.
Op_GraphGetNeighbors(m, acc, lg, code) ==
    Let(ListOperands(m, "graphs"), LAMBDA o :
        IF o.err # NoError THEN FailStack([m EXCEPT !.stack = o.s], acc, lg, o.err)
        ELSE IF o.slot = None
        THEN Fail([m EXCEPT !.stack = o.s], acc, lg, VMError("InvalidDataStructureOperation"))
        ELSE Let(GraphDS_get_neighbors(Unwrap(o.slot), o.arg), LAMBDA neighbors :
                 PushEachAndContinue(m, acc, lg, o.s,
                                     <<U64(Len(neighbors))>> \o PairsFromLast(neighbors))))

\* OpCode::GraphBfs: pushes the length of the BFS order, then its nodes from
\* the last to the first.
Op_GraphBfs(m, acc, lg, code) ==
    Let(ListOperands(m, "graphs"), LAMBDA o :
        IF o.err # NoError THEN FailStack([m EXCEPT !.stack = o.s], acc, lg, o.err)
        ELSE IF o.slot = None
        THEN Fail([m EXCEPT !.stack = o.s], acc, lg, VMError("InvalidDataStructureOperation"))
        ELSE Let(GraphDS_bfs(Unwrap(o.slot), o.arg), LAMBDA bfs_result :
                 PushEachAndContinue(m, acc, lg, o.s,
                                     <<U64(Len(bfs_result))>> \o Reverse(bfs_result))))

\* OpCode::OhlcvAddBar: pops volume, close, low, high, open, timestamp and
\* handle.  The model keeps timestamps as naturals: the programs it runs push
\* timestamps below 2^31, and pairwise different ones, so that the binary
\* search has one answer.
Op_OhlcvAddBar(m, acc, lg, code) ==
    Let(PopN(m.stack, 7), LAMBDA p :
    Let([m EXCEPT !.stack = p.s], LAMBDA m1 :
        IF p.err # NoError THEN FailStack(m1, acc, lg, p.err)
        ELSE IF UsizeGe(p.vals[7], Len(m.data_structures.ohlcvs))
        THEN Fail(m1, acc, lg, VMError("InvalidDataStructureOperation"))
        ELSE IF m.data_structures.ohlcvs[AsUsize(p.vals[7]) + 1] = None
        THEN Fail(m1, acc, lg, VMError("InvalidDataStructureOperation"))
        ELSE Let(Unwrap(m.data_structures.ohlcvs[AsUsize(p.vals[7]) + 1]), LAMBDA ohlcv :
             Let(OHLCVEntry(ToNat(p.vals[6]), p.vals[5], p.vals[4], p.vals[3],
                            p.vals[2], p.vals[1]), LAMBDA entry :
                 Continue([m1 EXCEPT !.data_structures.ohlcvs[AsUsize(p.vals[7]) + 1] =
                              Some(OHLCVDS_add_entry(
                                     ohlcv, entry,
                                     CHOOSE pos \in binary_search_by_key(ohlcv.data,
                                                                         entry.timestamp) :
                                        TRUE))],
                          acc, lg)))))

\* OpCode::OhlcvSma: pushes the number of averages, then value and timestamp
\* of each from the last to the first.  A period of 2^31 or more exceeds the
\* length of every series of the model.  The sums of the model's programs
\* stay below 2^64, where builds with and without overflow checks agree; a
\* sum beyond that panics as in a build with the checks.
Op_OhlcvSma(m, acc, lg, code) ==
    Let(ListOperands(m, "ohlcvs"), LAMBDA o :
        IF o.err # NoError THEN FailStack([m EXCEPT !.stack = o.s], acc, lg, o.err)
        ELSE IF o.slot = None
        THEN Fail([m EXCEPT !.stack = o.s], acc, lg, VMError("InvalidDataStructureOperation"))
        ELSE Let(IF IsSmall(o.arg)
                 THEN OHLCVDS_calculate_sma(Unwrap(o.slot), AsUsize(o.arg), TRUE)
                 ELSE Some(<<>>), LAMBDA sma_result :
                 IF sma_result = None THEN Panic([m EXCEPT !.stack = o.s], acc, lg)
                 ELSE PushEachAndContinue(
                        m, acc, lg, o.s,
                        <<U64(Len(Unwrap(sma_result)))>>
                          \o PairsFromLast([i \in DOMAIN Unwrap(sma_result) |->
                                              <<U64(Unwrap(sma_result)[i][1]),
                                                Unwrap(sma_result)[i][2]>>]))))

\* Four consecutive elements of `data` from the 0-based index at (the 256-bit
\* load through as_simd_ptr).
Lanes(data, at) == [i \in 1..4 |-> data[at + i]]

\* VM::vector_add on the VM's stack s: the stack afterwards, and NoError or
\* the error returned.  as_simd_ptr points at element depth - 8 of `data`;
\* the four pops lower the depth by 4 before the second as_simd_ptr and
\* as_simd_mut_ptr check it against 8 again.  _mm256_add_epi64 adds lane by
\* lane modulo 2^64.  A stack built by push and pop holds 64 elements more
\* than its depth, so the loads and the store stay inside `data`.
VM_vector_add(s) ==
    IF Stack_depth(s) < 8 THEN [s |-> s, err |-> "StackUnderflow"]
    ELSE Let(Lanes(s.data, Stack_depth(s) - 8), LAMBDA values2 :
         Let(PopN(s, 4), LAMBDA p :
             IF p.err # NoError THEN [s |-> p.s, err |-> p.err]
             ELSE IF Stack_depth(p.s) < 8 THEN [s |-> p.s, err |-> "StackUnderflow"]
             ELSE Let(Lanes(p.s.data, Stack_depth(p.s) - 8), LAMBDA values1 :
                      [s   |-> [p.s EXCEPT !.data =
                                  [i \in DOMAIN @ |->
                                     IF i - (Stack_depth(p.s) - 8) \in 1..4
                                     THEN u64_wrapping_add(
                                            values1[i - (Stack_depth(p.s) - 8)],
                                            values2[i - (Stack_depth(p.s) - 8)])
                                     ELSE @[i]]],
                       err |-> NoError])))

\* `match opcode { ... }`
Dispatch(op, m, acc, lg, code) ==
    CASE op = "Nop" -> Op_Nop(m, acc, lg, code)
      [] op = "Push1" -> Op_Push1(m, acc, lg, code)
      [] op = "Push8" -> Op_Push8(m, acc, lg, code)
      [] op = "Pop" -> Op_Pop(m, acc, lg, code)
      [] op = "Dup" -> Op_Dup(m, acc, lg, code)
      [] op = "Swap" -> Op_Swap(m, acc, lg, code)
      [] op = "Add" -> Op_Add(m, acc, lg, code)
      [] op = "Sub" -> Op_Sub(m, acc, lg, code)
      [] op = "Mul" -> Op_Mul(m, acc, lg, code)
      [] op = "Div" -> Op_Div(m, acc, lg, code)
      [] op = "Mod" -> Op_Mod(m, acc, lg, code)
      [] op = "MulDiv" -> Op_MulDiv(m, acc, lg, code)
      [] op = "TrieInsert" -> Op_TrieInsert(m, acc, lg, code)
      [] op = "TrieGet" -> Op_TrieGet(m, acc, lg, code)
      [] op = "TrieContains" -> Op_TrieContains(m, acc, lg, code)
      [] op = "GraphAddEdge" -> Op_GraphAddEdge(m, acc, lg, code)
      [] op = "GraphGetNeighbors" -> Op_GraphGetNeighbors(m, acc, lg, code)
      [] op = "GraphBfs" -> Op_GraphBfs(m, acc, lg, code)
      [] op = "OhlcvAddBar" -> Op_OhlcvAddBar(m, acc, lg, code)
      [] op = "OhlcvSma" -> Op_OhlcvSma(m, acc, lg, code)
      [] op = "Exp" -> Op_Exp(m, acc, lg, code)
      [] op = "Load" -> Op_Load(m, acc, lg, code)
      [] op = "Store" -> Op_Store(m, acc, lg, code)
      [] op = "StoreN" -> Op_StoreN(m, acc, lg, code)
      [] op = "Mstore8" -> Op_Mstore8(m, acc, lg, code)
      [] op = "Msize" -> Op_Msize(m, acc, lg, code)
      [] op = "Jump" -> Op_Jump(m, acc, lg, code)
      [] op = "JumpI" -> Op_JumpI(m, acc, lg, code)
      [] op = "Call" -> Op_Call(m, acc, lg, code)
      [] op = "Return" -> Op_Return(m, acc, lg, code)
      [] op = "Revert" -> Op_Revert(m, acc, lg, code)
      [] op = "Transfer" -> Op_Transfer(m, acc, lg, code)
      [] op = "SPLTransfer" -> Op_SPLTransfer(m, acc, lg, code)
      [] op = "CPI" -> Op_CPI(m, acc, lg, code)
      [] op = "Log" -> Op_Log(m, acc, lg, code)
      [] op = "GetBalance" -> Op_GetBalance(m, acc, lg, code)
      [] op = "GetOwner" -> Op_GetOwner(m, acc, lg, code)
      [] op = "IsWritable" -> Op_IsWritable(m, acc, lg, code)
      [] op = "IsSigner" -> Op_IsSigner(m, acc, lg, code)
      [] op = "BTreeCreate" -> Op_BTreeCreate(m, acc, lg, code)
      [] op = "BTreeInsert" -> Op_BTreeInsert(m, acc, lg, code)
      [] op = "BTreeGet" -> Op_BTreeGet(m, acc, lg, code)
      [] op = "BTreeClear" -> Op_BTreeClear(m, acc, lg, code)
      [] op = "TrieCreate" -> Op_TrieCreate(m, acc, lg, code)
      [] op = "GraphCreate" -> Op_GraphCreate(m, acc, lg, code)
      [] op = "OhlcvCreate" -> Op_OhlcvCreate(m, acc, lg, code)
      [] op = "HyperCreate" -> Op_HyperCreate(m, acc, lg, code)
      [] op = "Halt" -> Op_Halt(m, acc, lg, code)

(***************************************************************************)
(* State                                                                   *)
(***************************************************************************)

VARIABLES
    vm,        \* the VM struct: pc, gas, stack, memory, data_structures, reentrancy_guard
    accounts,  \* the host's account view: lamports, is_writable, is_signer, owner
    log,       \* the host log (msg!)
    code,      \* the bytecode passed to the latest execute call (<<>> before the first)
    running,   \* TRUE while an execute call is inside its loop
    result,    \* what the last execute call returned
    calls,     \* number of execute calls made so far
    obj,       \* the object a unit test drives directly (a TrieDS, a GraphDS, ...)
    last,      \* the last call made on obj: its name, arguments and return value
    expect     \* what the unit test has put into obj so far (its own bookkeeping)

\* The state of the VM and its host.
vmvars == <<vm, accounts, log, code, running, result, calls>>

\* The state of a unit test on one data structure.
unit == <<obj, last, expect>>

vars == <<vm, accounts, log, code, running, result, calls, obj, last, expect>>

\* Bound on the execute calls made on the one VM.
MaxCalls == 2

\* AccountInfo as the VM reads it: the balance behind the lamports RefCell,
\* the two flags and the owner's key.
Account(lamports, is_writable, is_signer) ==
    [lamports |-> lamports, is_writable |-> is_writable, is_signer |-> is_signer,
     owner |-> <<1, 2, 3, 4, 5, 6, 7, 8>>]

\* The account views the model starts from: account 0 holds 7 lamports and
\* signs, account 1 holds nothing or u64::MAX and does not sign; each is
\* writable or not.
AccountViews ==
    {<<Account(U64(7), w0, TRUE), Account(l1, w1, FALSE)>> :
        w0 \in BOOLEAN, w1 \in BOOLEAN, l1 \in {ZeroValue, U64Max}}

\* No call has returned yet.
NoResult == [kind |-> "None", value |-> None, err |-> NoErr]

\* An execute call is in progress.
Pending == [kind |-> "Pending", value |-> None, err |-> NoErr]

\* Ok(value): value is None or Some(word).
Ok(value) == [kind |-> "Ok", value |-> value, err |-> NoErr]

\* Err(e), e a ProgramError
Err(e) == [kind |-> "Err", value |-> None, err |-> e]

\* The call panicked: the process is gone.
Panicked == [kind |-> "Panic", value |-> None, err |-> NoErr]

(***************************************************************************)
(* The bytecodes the model runs                                            *)
(***************************************************************************)

\* push1 5, push1 3, add, halt (test_basic_execution)
BasicExecution == <<1, 5, 1, 3, 16, 255>>

\* push1 5, push1 0, div, halt
DivideByZero == <<1, 5, 1, 0, 19, 255>>

\* push1 5, push1 0, mod, halt
ModByZero == <<1, 5, 1, 0, 21, 255>>

\* push1 7, push1 2, div, push1 7, push1 2, mod, halt
DivideAndMod == <<1, 7, 1, 2, 19, 1, 7, 1, 2, 21, 255>>

\* The one-opcode programs of test_solana_account_operations, and GetOwner.
AccountPrograms == {<<OpCode.GetBalance>>, <<OpCode.IsWritable>>,
                    <<OpCode.IsSigner>>, <<OpCode.GetOwner>>}

\* push1 src, push1 dst, push1 amount, transfer, halt
TransferProgram(src, dst, amount) == <<1, src, 1, dst, 1, amount, 64, 255>>

\* Transfers between the accounts and to an index out of range, of amounts
\* below and above the balance 7.
TransferPrograms ==
    {TransferProgram(sd[1], sd[2], a) :
        sd \in {<<0, 1>>, <<1, 0>>, <<0, 0>>, <<0, 2>>}, a \in {3, 9}}

\* Number of push1 instructions of ManyPushes: one more than the stack's 64.
PushCount == 65

\* push1 1, PushCount times
ManyPushes == [i \in 1..(2 * PushCount) |-> 1]

\* push1 4, call, halt, push1 9, return
CallReturn == <<1, 4, 50, 255, 1, 9, 51>>

\* push1 9, return
ReturnOnly == <<1, 9, 51>>

\* push1 7, revert
RevertProgram == <<1, 7, 52>>

\* A byte that is no opcode.
InvalidOpcode == <<161>>

\* push1 255, jump, halt
JumpOutOfRange == <<1, 255, 48, 255>>

\* push1 1, push1 2, push1 3, dup 0, swap 1, add, log, halt (stack_test)
StackTest == <<1, 1, 1, 2, 1, 3, 4, 0, 5, 1, 16, 67, 255>>

\* push1 42, push1 0, store, push1 0, load, log, halt (memory_test)
MemoryTest == <<1, 42, 1, 0, 33, 1, 0, 32, 67, 255>>

\* push8 256, push1 3, sub, push1 2, mul, pop, nop, halt
Push8SubMul == <<2, 0, 1, 0, 0, 0, 0, 0, 0, 1, 3, 17, 1, 2, 18, 3, 0, 255>>

\* push1 1, push1 6, jumpi, halt, msize, halt
JumpIProgram == <<1, 1, 1, 6, 49, 255, 36, 255>>

\* push1 1, triecreate, push1 0, btreecreate, halt
CreatePrograms == <<1, 1, 89, 1, 0, 80, 255>>

\* The bytecodes of Spec.
Programs ==
    {BasicExecution, DivideByZero, ModByZero, DivideAndMod, ManyPushes, CallReturn,
     ReturnOnly, RevertProgram, InvalidOpcode, JumpOutOfRange, StackTest,
     MemoryTest, Push8SubMul, JumpIProgram, CreatePrograms,
     <<OpCode.SPLTransfer>>, <<OpCode.CPI>>}
    \cup AccountPrograms \cup TransferPrograms

\* push1 0, push1 0, push1 0, transfer, push1 0, jump: an endless loop that
\* moves 0 lamports from account 0 to itself.
TransferLoop == <<1, 0, 1, 0, 1, 0, 64, 1, 0, 48>>

\* The bytecodes of GasSpec.
GasPrograms == {TransferLoop, BasicExecution, RevertProgram, <<>>}

(***************************************************************************)
(* Actions                                                                 *)
(***************************************************************************)

Init ==
    /\ vm = VM_new
    /\ accounts \in AccountViews
    /\ log = <<>>
    /\ code = <<>>
    /\ running = FALSE
    /\ result = NoResult
    /\ calls = 0
    /\ obj = None
    /\ last = None
    /\ expect = None

\* The account view of test_transfer's shape: 7 lamports and 0, both writable.
GasInit ==
    /\ Init
    /\ accounts[2].lamports = ZeroValue
    /\ \A i \in DOMAIN accounts : accounts[i].is_writable

\* VM::execute is called with `bytecode`: the reentrancy guard is entered, or
\* the call returns Err(ReentrancyDetected) at once.
Execute(bytecode) ==
    /\ ~running
    /\ result.kind # "Panic"
    /\ calls < MaxCalls
    /\ calls' = calls + 1
    /\ UNCHANGED unit
    /\ LET g == ReentrancyGuard_enter(vm.reentrancy_guard)
       IN  IF g = None
           THEN /\ result' = Err(ProgramError_from(VMError("ReentrancyDetected")))
                /\ UNCHANGED <<vm, accounts, log, code, running>>
           ELSE /\ vm' = [vm EXCEPT !.reentrancy_guard = Unwrap(g)]
                /\ code' = bytecode
                /\ running' = TRUE
                /\ result' = Pending
                /\ UNCHANGED <<accounts, log>>

\* One iteration of execute's loop: fetch, charge, trace, advance, dispatch.
\* opcode is the decoded byte, gas_ the meter after the charge, m the VM as
\* the handler finds it and r the handler's outcome.  Only Halt (break)
\* reaches the guard's exit; a `return` or a `?` leaves the function from
\* inside the loop.
Step ==
    /\ running
    /\ vm.pc < Len(code)
    /\ \E opcode \in {from_byte(code[vm.pc + 1])} :
         IF opcode = NoOpcode
         THEN /\ result' = Err(ProgramError_from(VMError("InvalidInstruction")))
              /\ running' = FALSE
              /\ UNCHANGED <<vm, accounts, log, code>>
         ELSE \E gas_ \in {Gas_consume(vm.gas, gas_cost(opcode))} :
         IF gas_ = None
         THEN /\ result' = Err(ProgramError_from(VMError("OutOfGas")))
              /\ running' = FALSE
              /\ UNCHANGED <<vm, accounts, log, code>>
         ELSE \E m \in {[vm EXCEPT
                          !.gas = Unwrap(gas_),
                          !.tracer = Tracer_trace_execution(@,
                                       ExecutionTrace(vm.pc, opcode, gas_cost(opcode),
                                                      Gas_remaining(Unwrap(gas_)),
                                                      Stack_depth(vm.stack),
                                                      Memory_size(vm.memory))),
                          !.pc = @ + 1]} :
              \E r \in {Dispatch(opcode, m, accounts, log, code)} :
                /\ accounts' = r.accounts
                /\ log' = r.log
                /\ code' = code
                /\ CASE r.kind = "Continue" ->
                          /\ vm' = r.vm
                          /\ UNCHANGED <<running, result>>
                     [] r.kind = "Break" ->
                          /\ vm' = [r.vm EXCEPT !.reentrancy_guard = ReentrancyGuard_exit(@)]
                          /\ result' = Ok(None)
                          /\ running' = FALSE
                     [] r.kind = "Return" ->
                          /\ vm' = r.vm
                          /\ result' = Ok(Some(r.value))
                          /\ running' = FALSE
                     [] r.kind = "Err" ->
                          /\ vm' = r.vm
                          /\ result' = Err(ProgramError_from(r.err))
                          /\ running' = FALSE
                     [] r.kind = "Panic" ->
                          /\ vm' = r.vm
                          /\ result' = Panicked
                          /\ running' = FALSE
    /\ UNCHANGED <<calls, unit>>

\* The loop condition fails (pc is at or past the end of the bytecode): the
\* guard is exited and execute returns Ok(None).
LoopEnd ==
    /\ running
    /\ vm.pc >= Len(code)
    /\ vm' = [vm EXCEPT !.reentrancy_guard = ReentrancyGuard_exit(@)]
    /\ result' = Ok(None)
    /\ running' = FALSE
    /\ UNCHANGED <<accounts, log, code, calls, unit>>

\* Bound on the stack depth up to which the caller pushes between calls.
MaxHarnessDepth == 2

\* The caller pushes an account index on the VM's stack between execute
\* calls (vm.stack.push(Value(0)) in the tests).
HarnessPush(value) ==
    /\ ~running
    /\ result.kind # "Panic"
    /\ Stack_depth(vm.stack) < MaxHarnessDepth
    /\ vm' = [vm EXCEPT !.stack = Stack_push(@, value).s]
    /\ UNCHANGED <<accounts, log, code, running, result, calls, unit>>

Next ==
    \/ \E bytecode \in Programs : Execute(bytecode)
    \/ Step
    \/ LoopEnd

Spec == Init /\ [][Next]_vars

GasNext ==
    \/ \E bytecode \in GasPrograms : Execute(bytecode)
    \/ Step
    \/ LoopEnd

\* The calls of test_solana_account_operations: one-opcode programs on one VM,
\* an account index pushed by the caller before each.
TestNext ==
    \/ \E bytecode \in AccountPrograms : Execute(bytecode)
    \/ Step
    \/ LoopEnd
    \/ \E value \in {U64(0), U64(1)} : HarnessPush(value)

TestSpec == Init /\ [][TestNext]_vars

\* execute runs to completion without yielding (single-threaded, no
\* suspension points): a started loop iteration is always taken.
GasSpec == GasInit /\ [][GasNext]_vars /\ WF_vars(Step) /\ WF_vars(LoopEnd)

(***************************************************************************)
(* The data-structure opcodes on one VM (data_structure_store_tests.rs)    *)
(***************************************************************************)

\* The opcodes that create a data structure.
CreateOps == {"BTreeCreate", "TrieCreate", "GraphCreate", "OhlcvCreate", "HyperCreate"}

\* The store's vector an opcode's handle indexes.
DsField(op) ==
    CASE op \in {"BTreeCreate", "BTreeInsert", "BTreeGet", "BTreeClear"} -> "btrees"
      [] op = "TrieCreate" -> "tries"
      [] op = "GraphCreate" -> "graphs"
      [] op = "OhlcvCreate" -> "ohlcvs"
      [] op = "HyperCreate" -> "hypergraphs"

\* The new() value a create opcode stores.
DsFresh(op) ==
    CASE op = "BTreeCreate" -> BTreeMapDS_new
      [] op = "TrieCreate" -> TrieDS_new
      [] op = "GraphCreate" -> GraphDS_new
      [] op = "OhlcvCreate" -> OHLCVDS_new
      [] op = "HyperCreate" -> HypergraphDS_new

\* Largest handle the programs of DsSpec name.
MaxHandle == 2

\* push1 h, <create>, halt
CreateProgram(op, h) == <<1, h, OpCode[op], 255>>

\* push1 h, btreeclear, halt (test_data_structure_operations_with_ensure_capacity)
ClearProgram(h) == <<1, h, OpCode.BTreeClear, 255>>

\* push1 h, push1 100, push1 42, btreeinsert, pop, push1 h, push1 100,
\* btreeget, halt
InsertGetProgram(h) ==
    <<1, h, 1, 100, 1, 42, OpCode.BTreeInsert, 3, 1, h, 1, 100, OpCode.BTreeGet, 255>>

\* nop, push1 h, btreecreate, then the insert and the get of InsertGetProgram.
CreateInsertGetProgram(h) == <<0, 1, h, OpCode.BTreeCreate>> \o InsertGetProgram(h)

\* The bytecodes of DsSpec.
DsPrograms ==
    {CreateProgram(op, h) : op \in CreateOps, h \in 0..MaxHandle}
    \cup {ClearProgram(h) : h \in 0..MaxHandle}
    \cup {InsertGetProgram(h) : h \in 0..MaxHandle}
    \cup {CreateInsertGetProgram(h) : h \in 0..MaxHandle}

\* The caller grows one of the store's vectors before the first call
\* (vm.data_structures.ensure_capacity(..) in test_ensure_capacity).
HarnessEnsureCapacity(field, id) ==
    /\ ~running
    /\ calls = 0
    /\ id >= Len(vm.data_structures[field])
    /\ vm' = [vm EXCEPT !.data_structures =
                           DataStructureStore_ensure_capacity(@, field, id)]
    /\ UNCHANGED <<accounts, log, code, running, result, calls, unit>>

DsNext ==
    \/ \E bytecode \in DsPrograms : Execute(bytecode)
    \/ Step
    \/ LoopEnd
    \/ \E field \in {"btrees", "graphs", "tries"}, id \in 0..(MaxHandle - 1) :
          HarnessEnsureCapacity(field, id)

DsSpec == GasInit /\ [][DsNext]_vars

(***************************************************************************)
(* Unit tests on one data structure (data_structures_tests.rs): the VM is  *)
(* constructed and never run; the test calls the structure's methods.      *)
(***************************************************************************)

\* The VM and its host stay as constructed.
UnitInit ==
    /\ vm = VM_new
    /\ accounts = CHOOSE a \in AccountViews : TRUE
    /\ log = <<>>
    /\ code = <<>>
    /\ running = FALSE
    /\ result = NoResult
    /\ calls = 0

\* Largest number of inserts of TrieSpec.
MaxInserts == 3

\* The keys of TrieSpec: "", "h", "he", "hel", "hi" and "e".
TrieKeys == {<<>>, <<104>>, <<104, 101>>, <<104, 101, 108>>, <<104, 105>>, <<101>>}

\* The values of TrieSpec (test_trie_basic_operations).
TrieValues == {U64(42), U64(30)}

TrieInit ==
    /\ UnitInit
    /\ obj = TrieDS_new
    /\ last = [op |-> "new", key |-> <<>>, value |-> ZeroValue, count |-> 0]
    /\ expect = <<>>

\* trie.insert(key, value).unwrap(); the test notes what it inserted.
TrieInsert(key, value) ==
    /\ last.count < MaxInserts
    /\ obj' = TrieDS_insert(obj, key, value)
    /\ last' = [op |-> "insert", key |-> key, value |-> value, count |-> last.count + 1]
    /\ expect' = MapInsert(expect, key, value)
    /\ UNCHANGED vmvars

TrieNext == \E key \in TrieKeys, value \in TrieValues : TrieInsert(key, value)

TrieSpec == TrieInit /\ [][TrieNext]_vars

\* Largest number of calls of GraphSpec.
MaxGraphOps == 4

\* The node ids of GraphSpec (test_graph_basic_operations).
GraphNodes == {1, 2, 3}

GraphInit ==
    /\ UnitInit
    /\ obj = GraphDS_new
    /\ last = [op |-> "new", count |-> 0]
    /\ expect = [nodes |-> {}, edges |-> {}]

\* graph.add_node(node_id, value).unwrap(); the test notes the node.
GraphAddNode(node_id, value) ==
    /\ last.count < MaxGraphOps
    /\ LET r == GraphDS_add_node(obj, node_id, value)
       IN  /\ r.err = NoError
           /\ obj' = r.g
    /\ last' = [op |-> "add_node", count |-> last.count + 1]
    /\ expect' = [expect EXCEPT !.nodes = @ \cup {node_id}]
    /\ UNCHANGED vmvars

\* graph.add_edge(from, to, weight).unwrap(); the test notes the edge and its
\* endpoints.
GraphAddEdge(from, to, weight) ==
    /\ last.count < MaxGraphOps
    /\ LET r == GraphDS_add_edge(obj, from, to, weight)
       IN  /\ r.err = NoError
           /\ obj' = r.g
    /\ last' = [op |-> "add_edge", count |-> last.count + 1]
    /\ expect' = [nodes |-> expect.nodes \cup {from, to},
                  edges |-> expect.edges \cup {<<from, to>>}]
    /\ UNCHANGED vmvars

GraphNext ==
    \/ \E node_id \in GraphNodes : GraphAddNode(node_id, 100)
    \/ \E from \in GraphNodes, to \in GraphNodes : GraphAddEdge(from, to, 10)

GraphSpec == GraphInit /\ [][GraphNext]_vars

(***************************************************************************)
(* A HypergraphDS on its own: nodes, hyperedges and memberships.           *)
(***************************************************************************)

\* Number of calls made on the hypergraph.
MaxHyperOps == 4

\* The node ids, edge ids and edge weights of the calls.
HyperNodes == {1, 2}
HyperEdges == {10, 20}
HyperWeights == {5, 9}

\* HypergraphDS::new(); last is the latest call.
HyperInit ==
    /\ UnitInit
    /\ obj = HypergraphDS_new
    /\ last = [op |-> "new", edge_id |-> 0, weight |-> 0, count |-> 0]
    /\ expect = None

\* hypergraph.add_node(node_id, value)
HyperAddNode(node_id, value) ==
    /\ last.count < MaxHyperOps
    /\ obj' = HypergraphDS_add_node(obj, node_id, value)
    /\ last' = [op |-> "add_node", edge_id |-> 0, weight |-> 0,
                count |-> last.count + 1]
    /\ UNCHANGED <<vmvars, expect>>

\* hypergraph.create_hyperedge(edge_id, weight)
HyperCreateHyperedge(edge_id, weight) ==
    /\ last.count < MaxHyperOps
    /\ obj' = HypergraphDS_create_hyperedge(obj, edge_id, weight)
    /\ last' = [op |-> "create_hyperedge", edge_id |-> edge_id, weight |-> weight,
                count |-> last.count + 1]
    /\ UNCHANGED <<vmvars, expect>>

\* hypergraph.add_node_to_edge(edge_id, node_id)
HyperAddNodeToEdge(edge_id, node_id) ==
    /\ last.count < MaxHyperOps
    /\ obj' = HypergraphDS_add_node_to_edge(obj, edge_id, node_id)
    /\ last' = [op |-> "add_node_to_edge", edge_id |-> edge_id, weight |-> 0,
                count |-> last.count + 1]
    /\ UNCHANGED <<vmvars, expect>>

HyperNext ==
    \/ \E node_id \in HyperNodes : HyperAddNode(node_id, 100)
    \/ \E edge_id \in HyperEdges, weight \in HyperWeights :
           HyperCreateHyperedge(edge_id, weight)
    \/ \E edge_id \in HyperEdges, node_id \in HyperNodes :
           HyperAddNodeToEdge(edge_id, node_id)

HyperSpec == HyperInit /\ [][HyperNext]_vars

\* Largest number of calls of GraphLimitSpec.
MaxLimitOps == 2

\* The graph after add_node(i, 0) for i from 1 to n.
GraphOfNodes(n) == [edges |-> [i \in 1..n |-> <<>>], node_values |-> [i \in 1..n |-> 0]]

\* The node ids of GraphLimitSpec: one the graphs hold and two they do not.
LimitNodes == {1, 2000, 2001}

\* Graphs two nodes below the limit, one node below it and at it.
GraphLimitInit ==
    /\ UnitInit
    /\ obj \in {GraphOfNodes(n) : n \in (MAX_GRAPH_NODES - 2)..MAX_GRAPH_NODES}
    /\ last = [op |-> "new", err |-> NoError, count |-> 0]
    /\ expect = <<>>

\* graph.add_node(node_id, value), which may fail.
LimitAddNode(node_id, value) ==
    /\ last.count < MaxLimitOps
    /\ \E r \in {GraphDS_add_node(obj, node_id, value)} :
         /\ obj' = r.g
         /\ last' = [op |-> "add_node", err |-> r.err, count |-> last.count + 1]
    /\ UNCHANGED expect
    /\ UNCHANGED vmvars

\* graph.add_edge(from, to, weight), which may fail.
LimitAddEdge(from, to, weight) ==
    /\ last.count < MaxLimitOps
    /\ \E r \in {GraphDS_add_edge(obj, from, to, weight)} :
         /\ obj' = r.g
         /\ last' = [op |-> "add_edge", err |-> r.err, count |-> last.count + 1]
    /\ UNCHANGED expect
    /\ UNCHANGED vmvars

GraphLimitNext ==
    \/ \E node_id \in LimitNodes : LimitAddNode(node_id, 100)
    \/ \E from \in LimitNodes, to \in LimitNodes : LimitAddEdge(from, to, 10)

GraphLimitSpec == GraphLimitInit /\ [][GraphLimitNext]_vars

\* Largest number of bars of OhlcvSpec.
MaxBars == 3

\* The word 2^63.
HalfRange == [i \in 1..WordBytes |-> IF i = WordBytes THEN 128 ELSE 0]

\* The bars of OhlcvSpec: the timestamps of test_ohlcv_basic_operations,
\* with a small close and a close of 2^63.
Bars ==
    {OHLCVEntry(t, U64(100), U64(110), U64(90), c, U64(1000)) :
        t \in {1000, 2000, 3000}, c \in {U64(105), HalfRange}}

OhlcvInit ==
    /\ UnitInit
    /\ obj = OHLCVDS_new
    /\ last = [op |-> "new"]
    /\ expect = <<>>

\* ohlcv.add_entry(entry).unwrap(); the test notes the bar.
OhlcvAddEntry(entry) ==
    /\ Len(obj.data) < MaxBars
    /\ \E pos \in binary_search_by_key(obj.data, entry.timestamp) :
         /\ obj' = OHLCVDS_add_entry(obj, entry, pos)
         /\ last' = [op |-> "add_entry", entry |-> entry, pos |-> pos]
    /\ expect' = Append(expect, entry)
    /\ UNCHANGED vmvars

\* ohlcv.calculate_sma(period), in a build with or without overflow checks.
OhlcvSma(period, overflow_checks) ==
    /\ last' = [op |-> "calculate_sma", period |-> period,
                result |-> OHLCVDS_calculate_sma(obj, period, overflow_checks)]
    /\ UNCHANGED <<obj, expect>>
    /\ UNCHANGED vmvars

OhlcvNext ==
    \/ \E entry \in Bars : OhlcvAddEntry(entry)
    \/ \E period \in 0..(MaxBars + 1), overflow_checks \in BOOLEAN :
          OhlcvSma(period, overflow_checks)

OhlcvSpec == OhlcvInit /\ [][OhlcvNext]_vars

(***************************************************************************)
(* Calls on a Gas meter in any order.  obj is the meter, expect the        *)
(* caller's record of the checkpoints it took and has neither committed    *)
(* nor reverted (the value of remaining at each, oldest first), last the   *)
(* latest call with the meter before it.                                   *)
(***************************************************************************)

\* Largest number of checkpoints the caller keeps open.
MaxCheckpoints == 3

\* The limits the meters are created with.
GasLimits == {0, 7}

\* The amounts consume is called with.
GasAmounts == {0, 1, 2, 9}

MeterInit ==
    /\ UnitInit
    /\ obj \in {Gas_new(limit) : limit \in GasLimits}
    /\ last = [op |-> "new"]
    /\ expect = <<>>

\* gas.consume(amount)
MeterConsume(amount) ==
    /\ \E r \in {Gas_consume(obj, amount)} :
         /\ obj' = IF r = None THEN obj ELSE Unwrap(r)
         /\ last' = [op |-> "consume", before |-> obj, ok |-> r # None]
    /\ UNCHANGED expect
    /\ UNCHANGED vmvars

\* gas.checkpoint()
MeterCheckpoint ==
    /\ Len(expect) < MaxCheckpoints
    /\ obj' = Gas_checkpoint(obj)
    /\ last' = [op |-> "checkpoint", before |-> obj, ok |-> TRUE]
    /\ expect' = Append(expect, Gas_remaining(obj))
    /\ UNCHANGED vmvars

\* gas.revert_to_checkpoint()
MeterRevert ==
    /\ \E r \in {Gas_revert_to_checkpoint(obj)} :
         /\ obj' = r.g
         /\ last' = [op |-> "revert_to_checkpoint", before |-> obj, ok |-> r.err = NoError]
    /\ expect' = IF expect = <<>> THEN <<>> ELSE SubSeq(expect, 1, Len(expect) - 1)
    /\ UNCHANGED vmvars

\* gas.commit_checkpoint()
MeterCommit ==
    /\ obj' = Gas_commit_checkpoint(obj)
    /\ last' = [op |-> "commit_checkpoint", before |-> obj, ok |-> TRUE]
    /\ expect' = IF expect = <<>> THEN <<>> ELSE SubSeq(expect, 1, Len(expect) - 1)
    /\ UNCHANGED vmvars

\* gas.reset(): the meter drops every checkpoint.
MeterReset ==
    /\ obj' = Gas_reset(obj)
    /\ last' = [op |-> "reset", before |-> obj, ok |-> TRUE]
    /\ expect' = <<>>
    /\ UNCHANGED vmvars

MeterNext ==
    \/ \E amount \in GasAmounts : MeterConsume(amount)
    \/ MeterCheckpoint
    \/ MeterRevert
    \/ MeterCommit

MeterSpec == MeterInit /\ [][MeterNext]_vars

MeterResetNext ==
    \/ MeterNext
    \/ MeterReset

MeterResetSpec == MeterInit /\ [][MeterResetNext]_vars

(***************************************************************************)
(* Unit tests on a Memory (memory_tests.rs)                                *)
(***************************************************************************)

\* Largest number of calls of MemSpec.
MaxMemOps == 3

\* n bytes, each b (vec![b; n]).
Filled(b, n) == [i \in 1..n |-> b]

\* The stores of MemSpec: an 8-byte word with a zero byte and a 2-byte value
\* at offsets inside the buffer, across its end and past it, and the two
\* stores of test_memory_growth_strategy that grow the buffer.
Stores ==
    {<<o, v>> : o \in {0, 1020, 3000}, v \in {<<1, 2, 3, 0, 5, 6, 7, 8>>, <<9, 10>>}}
    \cup {<<1000, Filled(2, 1024)>>, <<2024, Filled(3, 1000)>>}

\* The copies of MemSpec: 4 bytes between offsets inside and past the buffer,
\* overlapping ranges included.
Copies == {<<dest, src, 4>> : dest \in {2, 1022, 3000}, src \in {0, 1020}}

MemInit ==
    /\ UnitInit
    /\ obj = Memory_new
    /\ last = [op |-> "new", offset |-> 0, len |-> 0, value |-> <<>>, count |-> 0]
    /\ expect = <<>>

\* memory.store(offset, &value).unwrap()
MemStore(offset, value) ==
    /\ last.count < MaxMemOps
    /\ obj' = Memory_store(obj, offset, value)
    /\ last' = [op |-> "store", offset |-> offset, len |-> Len(value), value |-> value,
                count |-> last.count + 1]
    /\ UNCHANGED expect
    /\ UNCHANGED vmvars

\* memory.copy(dest, src, len).unwrap(); last notes the range written and the
\* bytes the source range held.
MemCopy(dest, src, len) ==
    /\ last.count < MaxMemOps
    /\ obj' = Memory_copy(obj, dest, src, len)
    /\ last' = [op |-> "copy", offset |-> dest, len |-> len,
                value |-> [i \in 1..len |-> Memory_byte(obj, src + i - 1)],
                count |-> last.count + 1]
    /\ UNCHANGED expect
    /\ UNCHANGED vmvars

MemNext ==
    \/ \E st \in Stores : MemStore(st[1], st[2])
    \/ \E cp \in Copies : MemCopy(cp[1], cp[2], cp[3])

MemSpec == MemInit /\ [][MemNext]_vars

(***************************************************************************)
(* The memory opcodes on one VM                                            *)
(***************************************************************************)

\* The offsets the store programs write at.
StoreOffsets == {0, 8, 40, 100}

\* push1 42, push1 offset, store, halt
StoreProgram(offset) == <<1, 42, 1, offset, OpCode.Store, 255>>

\* push1 42, push1 offset, push1 len, storen, halt
StoreNProgram(offset, len) == <<1, 42, 1, offset, 1, len, OpCode.StoreN, 255>>

\* push1 42, push1 offset, mstore8, halt
Mstore8Program(offset) == <<1, 42, 1, offset, OpCode.Mstore8, 255>>

\* The bytecodes of StoreSpec.
StorePrograms ==
    {StoreProgram(o) : o \in StoreOffsets}
    \cup {StoreNProgram(o, len) : o \in StoreOffsets, len \in {0, 3, 9}}
    \cup {Mstore8Program(o) : o \in StoreOffsets}

StoreNext ==
    \/ \E bytecode \in StorePrograms : Execute(bytecode)
    \/ Step
    \/ LoopEnd

StoreSpec == GasInit /\ [][StoreNext]_vars

(***************************************************************************)
(* The host driver (lib.rs): instructions against the program account,     *)
(* whose data holds the packed ProgramState.  Each Execute instruction     *)
(* builds its own VM and runs execute to its end.                          *)
(***************************************************************************)

\* ProgramState::LEN: bool + Pubkey + u64 + u64 + i64
ProgramState_LEN == 1 + 32 + 8 + 8 + 8

\* The id of the program the driver is deployed as, and the id of another.
HostProgramId == <<1, 2, 3, 4, 5, 6, 7, 8>>
OtherProgramId == <<9, 9, 9, 9, 9, 9, 9, 9>>

\* The key of the program account.
ProgramAccountKey == <<7, 7, 7, 7, 7, 7, 7, 7>>

\* Pubkey::default()
Pubkey_default == <<0, 0, 0, 0, 0, 0, 0, 0>>

\* ProgramState::default()
ProgramState_default ==
    [is_initialized |-> FALSE, authority |-> Pubkey_default,
     total_executions |-> ZeroValue, total_gas_used |-> ZeroValue,
     last_execution_timestamp |-> 0]

\* Account data of `len` bytes: byte 0, bytes 1..32, and the three 8-byte
\* fields after them.  Data of another length than ProgramState::LEN is
\* known by its length alone.
AccountData(len, byte0, authority, total_executions, total_gas_used, timestamp) ==
    [len |-> len, byte0 |-> byte0, authority |-> authority,
     total_executions |-> total_executions, total_gas_used |-> total_gas_used,
     last_execution_timestamp |-> timestamp]

\* vec![0; space]
ZeroData(len) == AccountData(len, 0, Pubkey_default, ZeroValue, ZeroValue, 0)

\* ProgramState::pack_into_slice on data of ProgramState::LEN bytes
ProgramState_pack_into_slice(state, dst) ==
    AccountData(dst.len, IF state.is_initialized THEN 1 ELSE 0, state.authority,
                state.total_executions, state.total_gas_used,
                state.last_execution_timestamp)

\* ProgramState::unpack_from_slice: Some(state), or None for
\* Err(InvalidAccountData).
ProgramState_unpack_from_slice(src) ==
    IF src.len # ProgramState_LEN THEN None
    ELSE Some([is_initialized |-> src.byte0 # 0, authority |-> src.authority,
               total_executions |-> src.total_executions,
               total_gas_used |-> src.total_gas_used,
               last_execution_timestamp |-> src.last_execution_timestamp])

\* ProgramError::X
ProgramError(variant) == [type |-> "ProgramError", variant |-> variant, code |-> None]

\* A ProgramState::unpack that takes the record as it is, initialized or not.
ProgramState_unpack_unchecked(src) ==
    LET value == ProgramState_unpack_from_slice(src)
    IN  IF value = None THEN [state |-> None, err |-> ProgramError("InvalidAccountData")]
        ELSE [state |-> value, err |-> NoErr]

\* Pack::unpack: unpack_from_slice, then Err(UninitializedAccount) unless
\* the value is_initialized().
ProgramState_unpack(src) ==
    LET value == ProgramState_unpack_from_slice(src)
    IN  IF value = None THEN [state |-> None, err |-> ProgramError("InvalidAccountData")]
        ELSE IF ~Unwrap(value).is_initialized
        THEN [state |-> None, err |-> ProgramError("UninitializedAccount")]
        ELSE [state |-> value, err |-> NoErr]

\* An AccountInfo of the host: the account view of the VM plus key and data.
HostAccount(key, lamports, data, owner, is_signer, is_writable) ==
    [key |-> key, lamports |-> lamports, data |-> data, owner |-> owner,
     is_signer |-> is_signer, is_writable |-> is_writable]

\* AccountManager::get_account(index): the account, or None for
\* Err(NotEnoughAccountKeys).
AccountManager_get_account(acc, index) ==
    IF index >= Len(acc) THEN None ELSE Some(acc[index + 1])

\* AccountManager::verify_owner: NoErr, or the error.
AccountManager_verify_owner(acc, index, owner) ==
    LET account == AccountManager_get_account(acc, index)
    IN  IF account = None THEN ProgramError("NotEnoughAccountKeys")
        ELSE IF Unwrap(account).owner # owner THEN ProgramError("IncorrectProgramId")
        ELSE NoErr

\* AccountManager::verify_signer
AccountManager_verify_signer(acc, index) ==
    LET account == AccountManager_get_account(acc, index)
    IN  IF account = None THEN ProgramError("NotEnoughAccountKeys")
        ELSE IF ~Unwrap(account).is_signer THEN ProgramError("MissingRequiredSignature")
        ELSE NoErr

\* AccountManager::verify_rent_exempt, `exempt` being the verdict of the
\* host's Rent::is_exempt on the account's balance and data length.
AccountManager_verify_rent_exempt(acc, index, exempt) ==
    LET account == AccountManager_get_account(acc, index)
    IN  IF account = None THEN ProgramError("NotEnoughAccountKeys")
        ELSE IF ~exempt THEN ProgramError("AccountNotRentExempt")
        ELSE NoErr

\* The loop of VM::execute run to its end on VM m: the VM, the accounts and
\* the log it leaves and the result it returns.
RECURSIVE VM_execute_loop(_, _, _, _)
VM_execute_loop(m, acc, lg, bytecode) ==
    IF m.pc >= Len(bytecode)
    THEN [vm |-> [m EXCEPT !.reentrancy_guard = ReentrancyGuard_exit(@)],
          accounts |-> acc, log |-> lg, result |-> Ok(None)]
    ELSE
    Let(from_byte(bytecode[m.pc + 1]), LAMBDA opcode :
        IF opcode = NoOpcode
        THEN [vm |-> m, accounts |-> acc, log |-> lg,
              result |-> Err(ProgramError_from(VMError("InvalidInstruction")))]
        ELSE
        Let(Gas_consume(m.gas, gas_cost(opcode)), LAMBDA gas_ :
            IF gas_ = None
            THEN [vm |-> m, accounts |-> acc, log |-> lg,
                  result |-> Err(ProgramError_from(VMError("OutOfGas")))]
            ELSE
            Let(Dispatch(opcode,
                         [m EXCEPT
                            !.gas = Unwrap(gas_),
                            !.tracer = Tracer_trace_execution(@,
                                         ExecutionTrace(m.pc, opcode, gas_cost(opcode),
                                                        Gas_remaining(Unwrap(gas_)),
                                                        Stack_depth(m.stack),
                                                        Memory_size(m.memory))),
                            !.pc = @ + 1],
                         acc, lg, bytecode),
                LAMBDA r :
                CASE r.kind = "Continue" -> VM_execute_loop(r.vm, r.accounts, r.log, bytecode)
                  [] r.kind = "Break" ->
                       [vm |-> [r.vm EXCEPT !.reentrancy_guard = ReentrancyGuard_exit(@)],
                        accounts |-> r.accounts, log |-> r.log, result |-> Ok(None)]
                  [] r.kind = "Return" ->
                       [vm |-> r.vm, accounts |-> r.accounts, log |-> r.log,
                        result |-> Ok(Some(r.value))]
                  [] r.kind = "Err" ->
                       [vm |-> r.vm, accounts |-> r.accounts, log |-> r.log,
                        result |-> Err(ProgramError_from(r.err))]
                  [] r.kind = "Panic" ->
                       [vm |-> r.vm, accounts |-> r.accounts, log |-> r.log,
                        result |-> Panicked])))

\* VM::execute on VM m, from the guard's entry to the return.
VM_execute(m, acc, lg, bytecode) ==
    LET g == ReentrancyGuard_enter(m.reentrancy_guard)
    IN  IF g = None
        THEN [vm |-> m, accounts |-> acc, log |-> lg,
              result |-> Err(ProgramError_from(VMError("ReentrancyDetected")))]
        ELSE VM_execute_loop([m EXCEPT !.reentrancy_guard = Unwrap(g)], acc, lg, bytecode)

\* process_initialize: the accounts it leaves and its ProgramResult.
\* `exempt` is the host's rent verdict and `now` its clock.
process_initialize(program_id, acc, exempt, now) ==
    LET program_account == AccountManager_get_account(acc, 0)
        owner_err == AccountManager_verify_owner(acc, 0, program_id)
        signer_err == AccountManager_verify_signer(acc, 0)
        rent_err == AccountManager_verify_rent_exempt(acc, 0, exempt)
    IN  IF program_account = None
        THEN [accounts |-> acc, result |-> Err(ProgramError("NotEnoughAccountKeys"))]
        ELSE IF owner_err # NoErr THEN [accounts |-> acc, result |-> Err(owner_err)]
        ELSE IF signer_err # NoErr THEN [accounts |-> acc, result |-> Err(signer_err)]
        ELSE IF rent_err # NoErr THEN [accounts |-> acc, result |-> Err(rent_err)]
        ELSE IF Unwrap(program_account).data.len # ProgramState_LEN
        THEN [accounts |-> acc, result |-> Panicked]
        ELSE
        LET state == [ProgramState_default EXCEPT
                        !.is_initialized = TRUE,
                        !.authority = Unwrap(program_account).key,
                        !.last_execution_timestamp = now]
        IN  [accounts |-> [acc EXCEPT ![1].data = ProgramState_pack_into_slice(state, @)],
             result |-> Ok(None)]

\* A process_execute that takes the record through unpack_unchecked and
\* never looks at is_initialized.
process_execute_unchecked(program_id, acc, lg, bytecode, now) ==
    LET program_account == AccountManager_get_account(acc, 0)
        owner_err == AccountManager_verify_owner(acc, 0, program_id)
    IN  IF program_account = None
        THEN [vm |-> None, accounts |-> acc, log |-> lg,
              result |-> Err(ProgramError("NotEnoughAccountKeys"))]
        ELSE IF owner_err # NoErr
        THEN [vm |-> None, accounts |-> acc, log |-> lg, result |-> Err(owner_err)]
        ELSE
        LET u == ProgramState_unpack_unchecked(Unwrap(program_account).data)
        IN  IF u.err # NoErr
            THEN [vm |-> None, accounts |-> acc, log |-> lg, result |-> Err(u.err)]
            ELSE
            Let(VM_execute(VM_new, acc, lg, bytecode), LAMBDA r :
                IF r.result.kind # "Ok"
                THEN [vm |-> Some(r.vm), accounts |-> r.accounts, log |-> r.log,
                      result |-> r.result]
                ELSE
                LET state == [Unwrap(u.state) EXCEPT
                                !.total_executions = u64_wrapping_add(@, U64(1)),
                                !.total_gas_used =
                                    u64_wrapping_add(@, U64(Unwrap(gas_used(r.vm)))),
                                !.last_execution_timestamp = now]
                IN  [vm |-> Some(r.vm),
                     accounts |-> [r.accounts EXCEPT
                                     ![1].data = ProgramState_pack_into_slice(state, @)],
                     log |-> r.log, result |-> Ok(None)])

\* process_execute: the VM it built (None when it built none), the accounts
\* and the log it leaves and its ProgramResult.  `now` is the host's clock.
process_execute(program_id, acc, lg, bytecode, now) ==
    LET program_account == AccountManager_get_account(acc, 0)
        owner_err == AccountManager_verify_owner(acc, 0, program_id)
    IN  IF program_account = None
        THEN [vm |-> None, accounts |-> acc, log |-> lg,
              result |-> Err(ProgramError("NotEnoughAccountKeys"))]
        ELSE IF owner_err # NoErr
        THEN [vm |-> None, accounts |-> acc, log |-> lg, result |-> Err(owner_err)]
        ELSE
        LET u == ProgramState_unpack(Unwrap(program_account).data)
        IN  IF u.err # NoErr
            THEN [vm |-> None, accounts |-> acc, log |-> lg, result |-> Err(u.err)]
            ELSE IF ~Unwrap(u.state).is_initialized
            THEN [vm |-> None, accounts |-> acc, log |-> lg,
                  result |-> Err(ProgramError("UninitializedAccount"))]
            ELSE
            Let(VM_execute(VM_new, acc, lg, bytecode), LAMBDA r :
                IF r.result.kind # "Ok"
                THEN [vm |-> Some(r.vm), accounts |-> r.accounts, log |-> r.log,
                      result |-> r.result]
                ELSE
                LET state == [Unwrap(u.state) EXCEPT
                                !.total_executions = u64_wrapping_add(@, U64(1)),
                                !.total_gas_used =
                                    u64_wrapping_add(@, U64(Unwrap(gas_used(r.vm)))),
                                !.last_execution_timestamp = now]
                IN  [vm |-> Some(r.vm),
                     accounts |-> [r.accounts EXCEPT
                                     ![1].data = ProgramState_pack_into_slice(state, @)],
                     log |-> r.log, result |-> Ok(None)])

\* The program accounts the host may hand over: owned by the program or
\* not, signing or not, with data of the record's length (all zero, or
\* zero but for a nonzero first byte) or one byte short of it.
ProgramAccounts ==
    {HostAccount(ProgramAccountKey, U64(7), data, owner, is_signer, TRUE) :
        data \in {ZeroData(ProgramState_LEN), ZeroData(ProgramState_LEN - 1),
                  AccountData(ProgramState_LEN, 2, Pubkey_default, ZeroValue, ZeroValue, 0)},
        owner \in {HostProgramId, OtherProgramId},
        is_signer \in BOOLEAN}

\* The bytecodes of the Execute instructions: an addition, a transfer of 3
\* lamports from account 0 to account 1, a division by zero, no code.
HostPrograms == {BasicExecution, TransferProgram(0, 1, 3), DivideByZero, <<>>}

\* The clock readings of the host.
Timestamps == {100, 200}

\* Number of instructions the host sends.
MaxInstructions == 3

HostInit ==
    /\ vm = VM_new
    /\ accounts \in {<<a, HostAccount(Pubkey_default, ZeroValue, ZeroData(0),
                                      OtherProgramId, FALSE, TRUE)>> :
                        a \in ProgramAccounts}
    /\ log = <<>>
    /\ code = <<>>
    /\ running = FALSE
    /\ result = NoResult
    /\ calls = 0
    /\ obj = None
    /\ last = [op |-> "none"]
    /\ expect = None

\* process_instruction with Instruction::Initialize
Initialize(exempt, now) ==
    /\ calls < MaxInstructions
    /\ result.kind # "Panic"
    /\ calls' = calls + 1
    /\ \E r \in {process_initialize(HostProgramId, accounts, exempt, now)} :
           /\ accounts' = r.accounts
           /\ result' = r.result
    /\ log' = log \o <<"LessVM: Processing instruction", "LessVM: Initializing">>
                  \o (IF result'.kind = "Ok"
                      THEN <<"LessVM: Initialized successfully">> ELSE <<>>)
    /\ last' = [op |-> "Initialize"]
    /\ UNCHANGED <<vm, code, running, obj, expect>>

\* process_instruction with Instruction::Execute { bytecode }; vm is the VM
\* of the latest instruction that built one.
ExecuteInstruction(bytecode, now) ==
    /\ calls < MaxInstructions
    /\ result.kind # "Panic"
    /\ calls' = calls + 1
    /\ \E r \in {process_execute(HostProgramId, accounts,
                                  log \o <<"LessVM: Processing instruction",
                                           "LessVM: Executing bytecode">>,
                                  bytecode, now)} :
           /\ accounts' = r.accounts
           /\ log' = r.log
           /\ result' = r.result
           /\ vm' = IF r.vm = None THEN vm ELSE Unwrap(r.vm)
           /\ last' = [op |-> "Execute", built |-> r.vm # None]
    /\ code' = bytecode
    /\ UNCHANGED <<running, obj, expect>>

HostNext ==
    \/ \E exempt \in BOOLEAN, now \in Timestamps : Initialize(exempt, now)
    \/ \E bytecode \in HostPrograms, now \in Timestamps : ExecuteInstruction(bytecode, now)

HostSpec == HostInit /\ [][HostNext]_vars

(***************************************************************************)
(* The Stack on its own: pushes, pops, dup, swap and frames on a           *)
(* Stack::new().  `last` is the latest call and what it returned; `expect` *)
(* lists, for each open frame, what the stack held when push_frame was     *)
(* called and whether only pushes have followed.                           *)
(***************************************************************************)

\* Number of calls made on the stack.
MaxStackOps == 5

\* The values pushed.
StackValues == {U64(5), U64(9)}

\* The arguments of dup and swap.
StackArgs == {0, 1}

\* What the stack holds as pops observe it: the values that popping down to
\* depth 0 returns, the top first.
Drain(s) == PopN(s, Stack_depth(s)).vals

\* Every open frame has seen a call that is no push.
NotOnlyPushes(marks) == [i \in DOMAIN marks |-> [marks[i] EXCEPT !.only_pushes = FALSE]]

StackInit ==
    /\ UnitInit
    /\ obj = Stack_new
    /\ last = [op |-> "new", n |-> 0, v |-> None, err |-> NoError, ops |-> 0]
    /\ expect = <<>>

\* The call `op` with argument n returned r.
StackCalled(op, n, r) ==
    /\ last.ops < MaxStackOps
    /\ last.err # "Panic"
    /\ obj' = r.s
    /\ last' = [op |-> op, n |-> n, v |-> r.v, err |-> r.err, ops |-> last.ops + 1]
    /\ UNCHANGED vmvars

\* stack.push(value)
StackPush(value) ==
    /\ StackCalled("push", 0, Stack_push(obj, value))
    /\ UNCHANGED expect

\* stack.pop()
StackPop ==
    /\ StackCalled("pop", 0, Stack_pop(obj))
    /\ expect' = NotOnlyPushes(expect)

\* stack.dup(n)
StackDup(n) ==
    /\ StackCalled("dup", n, Stack_dup(obj, n))
    /\ expect' = NotOnlyPushes(expect)

\* stack.swap(n)
StackSwap(n) ==
    /\ StackCalled("swap", n, Stack_swap(obj, n))
    /\ expect' = NotOnlyPushes(expect)

\* stack.push_frame()
StackPushFrame ==
    /\ StackCalled("push_frame", 0, Stack_push_frame(obj))
    /\ expect' = IF last'.err = NoError
                  THEN Append(NotOnlyPushes(expect),
                              [held |-> Drain(obj), only_pushes |-> TRUE])
                  ELSE NotOnlyPushes(expect)

\* stack.pop_frame()
StackPopFrame ==
    /\ StackCalled("pop_frame", 0, Stack_pop_frame(obj))
    /\ expect' = IF last'.err = NoError
                  THEN NotOnlyPushes(SubSeq(expect, 1, Len(expect) - 1))
                  ELSE NotOnlyPushes(expect)

StackNext ==
    \/ \E value \in StackValues : StackPush(value)
    \/ StackPop
    \/ \E n \in StackArgs : StackDup(n)
    \/ \E n \in StackArgs : StackSwap(n)
    \/ StackPushFrame
    \/ StackPopFrame

StackSpec == StackInit /\ [][StackNext]_vars

(***************************************************************************)
(* Bytecode that ends inside an instruction                                *)
(***************************************************************************)

\* push1, push8, dup and swap as the last byte, a push8 with three of its
\* eight bytes, and two complete programs.
TruncatedPrograms ==
    {<<OpCode.Push1>>, <<OpCode.Push8>>, <<OpCode.Push8, 1, 2, 3>>,
     <<OpCode.Dup>>, <<OpCode.Swap>>, <<1, 5, OpCode.Dup>>, BasicExecution, StackTest}

TruncatedNext ==
    \/ \E bytecode \in TruncatedPrograms : Execute(bytecode)
    \/ Step
    \/ LoopEnd

TruncatedSpec == Init /\ [][TruncatedNext]_vars

(***************************************************************************)
(* MulDiv and Exp                                                          *)
(***************************************************************************)

\* The word 2^32.
TwoTo32 == [i \in 1..WordBytes |-> IF i = 5 THEN 1 ELSE 0]

\* push8 a, push8 b, push8 c, muldiv, halt
MulDivProgram(a, b, c) ==
    <<OpCode.Push8>> \o a \o <<OpCode.Push8>> \o b \o <<OpCode.Push8>> \o c
        \o <<OpCode.MulDiv, OpCode.Halt>>

\* push8 base, push8 exponent, exp, nine nops, halt: as long as a
\* MulDivProgram.
ExpProgram(base, exponent) ==
    <<OpCode.Push8>> \o base \o <<OpCode.Push8>> \o exponent
        \o <<OpCode.Exp>> \o Zeros(9) \o <<OpCode.Halt>>

\* Products below and above 2^64, divisors 0, 1 and 8; bases 0, 2, 3 and
\* 2^32 with exponents from 0 to 65.
ArithPrograms ==
    {MulDivProgram(a, U64(4), c) :
        a \in {U64(6), HalfRange}, c \in {ZeroValue, U64(1), U64(8)}}
    \cup {ExpProgram(base, U64(e)) :
        base \in {ZeroValue, U64(2), U64(3), TwoTo32}, e \in {0, 1, 2, 10, 65}}

ArithNext ==
    \/ \E bytecode \in ArithPrograms : Execute(bytecode)
    \/ Step
    \/ LoopEnd

ArithSpec == GasInit /\ [][ArithNext]_vars

(***************************************************************************)
(* The trie opcodes                                                        *)
(***************************************************************************)

\* push1 0, triecreate; push1 0, push1 0, push1 insert_len, push1 42,
\* trieinsert; push1 0, push1 0, push1 query_len, `query`; halt: trie 0 is
\* created, the insert_len bytes at offset 0 (zeros) are inserted with
\* value 42 and the query_len bytes at offset 0 are looked up.
TrieProgram(insert_len, query, query_len) ==
    <<1, 0, OpCode.TrieCreate,
      1, 0, 1, 0, 1, insert_len, 1, 42, OpCode.TrieInsert,
      1, 0, 1, 0, 1, query_len, OpCode[query], OpCode.Halt>>

\* The key lengths of the trie programs.
KeyLens == {0, 1, 2}

\* The bytecodes of TrieOpSpec.
TriePrograms ==
    {TrieProgram(insert_len, query, query_len) :
        insert_len \in KeyLens, query \in {"TrieGet", "TrieContains"}, query_len \in KeyLens}

TrieOpNext ==
    \/ \E bytecode \in TriePrograms : Execute(bytecode)
    \/ Step
    \/ LoopEnd

TrieOpSpec == GasInit /\ [][TrieOpNext]_vars

(***************************************************************************)
(* Calls and returns                                                       *)
(***************************************************************************)

\* push1 1, push1 1, push1 7, call, pop, pop, push1 13, call, nop, halt:
\* a function is entered at depth 2, pops both values and enters another
\* function at depth 0.
CallPopCall == <<1, 1, 1, 1, 1, 7, 50, 3, 3, 1, 13, 50, 0, 255>>

\* The bytecodes of FrameSpec.
FramePrograms == {CallReturn, ReturnOnly, CallPopCall, BasicExecution}

FrameNext ==
    \/ \E bytecode \in FramePrograms : Execute(bytecode)
    \/ Step
    \/ LoopEnd

FrameSpec == Init /\ [][FrameNext]_vars

(***************************************************************************)
(* Traced runs: programs that touch the stack, the memory and the          *)
(* balances, a byte that is no opcode and a loop that runs out of gas.     *)
(***************************************************************************)

\* The bytecodes of TraceSpec.
TracePrograms == {TransferLoop, MemoryTest, StackTest, InvalidOpcode}

TraceNext ==
    \/ \E bytecode \in TracePrograms : Execute(bytecode)
    \/ Step
    \/ LoopEnd

TraceSpec == GasInit /\ [][TraceNext]_vars

(***************************************************************************)
(* The listing opcodes: GraphGetNeighbors, GraphBfs and OhlcvSma           *)
(***************************************************************************)

\* push1 0, graphcreate, the edges 1 -> 2 (weight 10) and 1 -> 3 (weight 20)
\* of test_graph_operations, push1 0, push1 node, <op>, nops, halt: as long
\* as a SmaProgram.
GraphListProgram(op, node) ==
    <<1, 0, OpCode.GraphCreate,
      1, 0, 1, 1, 1, 2, 1, 10, OpCode.GraphAddEdge,
      1, 0, 1, 1, 1, 3, 1, 20, OpCode.GraphAddEdge,
      1, 0, 1, node, OpCode[op]>> \o Zeros(12) \o <<OpCode.Halt>>

\* push1 0, ohlcvcreate, a bar at timestamp 20 closing at 8, a bar at
\* timestamp 10 closing at 4, push1 0, push1 period, ohlcvsma, halt.
SmaProgram(period) ==
    <<1, 0, OpCode.OhlcvCreate,
      1, 0, 1, 20, 1, 7, 1, 9, 1, 6, 1, 8, 1, 100, OpCode.OhlcvAddBar,
      1, 0, 1, 10, 1, 3, 1, 5, 1, 2, 1, 4, 1, 100, OpCode.OhlcvAddBar,
      1, 0, 1, period, OpCode.OhlcvSma, OpCode.Halt>>

\* Listings from a node with two neighbours, a node with none and a node the
\* graph does not hold; averages over periods from 0 to one more than the
\* series is long.
ListPrograms ==
    {GraphListProgram(op, node) : op \in {"GraphGetNeighbors", "GraphBfs"}, node \in {1, 2, 9}}
    \cup {SmaProgram(period) : period \in 0..3}

ListNext ==
    \/ \E bytecode \in ListPrograms : Execute(bytecode)
    \/ Step
    \/ LoopEnd
    \/ HarnessEnsureCapacity("graphs", 0)

ListSpec == GasInit /\ [][ListNext]_vars

(***************************************************************************)
(* Failures as the host sees them: Revert and the VM's own errors          *)
(***************************************************************************)

\* push8 code, revert
RevertWith(error_code) == <<OpCode.Push8>> \o error_code \o <<OpCode.Revert>>

\* The codes the Revert programs name: the numbers of the VM's own errors,
\* 42, and two codes that differ from 1 and from 42 by 2^32.
RevertCodes ==
    {U64(n) : n \in 0..9} \cup {U64(42)}
    \cup {u64_wrapping_add(TwoTo32, U64(n)) : n \in {1, 42}}

\* Programs that end in one of the VM's own errors: a pop from the empty
\* stack, a division by zero, a byte that is no opcode, a transfer to an
\* account the view does not hold, u64::MAX + 1, a load at u64::MAX, a graph
\* created in an empty vector, and a loop that runs out of gas.
FailingPrograms ==
    {<<OpCode.Pop>>, DivideByZero, InvalidOpcode, TransferProgram(0, 2, 3),
     <<OpCode.Push8>> \o U64Max \o <<OpCode.Push1, 1, OpCode.Add>>,
     <<OpCode.Push8>> \o U64Max \o <<OpCode.Load>>,
     <<OpCode.Push1, 0, OpCode.GraphCreate>>,
     TransferLoop}

\* The bytecodes of ErrorSpec, the empty bytecode (which succeeds) among
\* them.
ErrorPrograms == FailingPrograms \cup {RevertWith(c) : c \in RevertCodes} \cup {<<>>}

ErrorNext ==
    \/ \E bytecode \in ErrorPrograms : Execute(bytecode)
    \/ Step
    \/ LoopEnd

ErrorSpec == GasInit /\ [][ErrorNext]_vars

(***************************************************************************)
(* vector_add on a stack the caller filled (vector_add_tests.rs).  obj is  *)
(* the VM's stack, last the latest call.                                   *)
(***************************************************************************)

\* Largest depth the caller pushes to.
MaxVectorDepth == 12

\* The values the caller pushes.
VectorValues == {U64(3), U64Max}

VectorInit ==
    /\ UnitInit
    /\ obj = Stack_new
    /\ last = [op |-> "new", err |-> NoError]
    /\ expect = <<>>

\* vm.stack.push(value).unwrap()
VectorPush(value) ==
    /\ Stack_depth(obj) < MaxVectorDepth
    /\ \E r \in {Stack_push(obj, value)} :
         /\ obj' = r.s
         /\ last' = [op |-> "push", err |-> r.err]
    /\ UNCHANGED expect
    /\ UNCHANGED vmvars

\* vm.vector_add()
VectorAdd ==
    /\ \E r \in {VM_vector_add(obj)} :
         /\ obj' = r.s
         /\ last' = [op |-> "vector_add", err |-> r.err]
    /\ UNCHANGED expect
    /\ UNCHANGED vmvars

VectorNext ==
    \/ \E value \in VectorValues : VectorPush(value)
    \/ VectorAdd

VectorSpec == VectorInit /\ [][VectorNext]_vars

(***************************************************************************)
(* Properties                                                              *)
(***************************************************************************)

\* The next loop iteration dispatches opcode op: the call is in its loop, the
\* byte at pc decodes to op and the gas meter can pay for it.
Dispatching(op) ==
    /\ running
    /\ vm.pc < Len(code)
    /\ from_byte(code[vm.pc + 1]) = op
    /\ Gas_consume(vm.gas, gas_cost(op)) # None

\* The stack holds at least n values a handler can pop.
Poppable(n) == Stack_depth(vm.stack) >= n /\ Len(vm.stack.data) >= n

\* The value the k-th pop of the next handler yields (k = 1 is the top).
Operand(k) == vm.stack.data[Len(vm.stack.data) - k + 1]

\* C1: after every call to execute has returned, by Halt, end of bytecode,
\* Return, Revert or an error, the reentrancy flag is clear.
C1_FlagClearOnEveryExit ==
    (~running /\ result.kind \in {"Ok", "Err"}) => ~vm.reentrancy_guard.entered

\* C2: every call to execute that enters its loop begins fetching at byte 0
\* of the bytecode passed to it.
C2_ExecuteBeginsAtByteZero ==
    [][(~running /\ running') => vm'.pc = 0]_vars

\* C3: a call to execute made while the reentrancy flag is set returns the
\* ReentrancyDetected error and leaves the VM (pc, stack, memory, gas, the
\* data-structure store) and every account as they were.
C3_ReentrantCallChangesNothing ==
    [][(calls' = calls + 1 /\ vm.reentrancy_guard.entered)
          => /\ result' = Err(ProgramError_from(VMError("ReentrancyDetected")))
             /\ ~running'
             /\ vm' = vm
             /\ accounts' = accounts]_vars

\* A call was rejected on a VM that an earlier call had stepped and charged.
C3_Witness ==
    /\ result = Err(ProgramError_from(VMError("ReentrancyDetected")))
    /\ calls = 2
    /\ vm.pc > 0
    /\ Gas_remaining(vm.gas) < INITIAL_GAS

\* C4: the stack depth is at most 64 in every state of every run.
C4_DepthAtMost64 == Stack_depth(vm.stack) <= STACK_SLOTS

\* C5: at every step gas_used() plus the gas remaining is 200000, and the
\* step that fails with OutOfGas leaves the gas remaining as it was.
C5_GasUsedPlusRemaining ==
    /\ [](/\ gas_used(vm) # None
          /\ Unwrap(gas_used(vm)) + Gas_remaining(vm.gas) = INITIAL_GAS)
    /\ [][(running /\ result' = Err(ProgramError_from(VMError("OutOfGas"))))
             => Gas_remaining(vm'.gas) = Gas_remaining(vm.gas)]_vars

\* A charge failed while gas was left, and the sum is still 200000.
C5_Witness ==
    /\ result = Err(ProgramError_from(VMError("OutOfGas")))
    /\ Gas_remaining(vm.gas) > 0
    /\ gas_used(vm) = Some(INITIAL_GAS - Gas_remaining(vm.gas))

\* C6: every execute call eventually returns, and every opcode other than
\* Return, Revert and Halt, which end the call, costs at least 1 gas.
C6_ExecuteTerminates ==
    /\ running ~> ~running
    /\ [](\A op \in OpNames \ {"Return", "Revert", "Halt"} : gas_cost(op) >= 1)

\* The endless backward-jumping loop has ended with OutOfGas.
C6_Witness ==
    /\ ~running
    /\ code = TransferLoop
    /\ result = Err(ProgramError_from(VMError("OutOfGas")))
    /\ vm.pc < Len(TransferLoop)

Idx(v) == AsUsize(v) + 1

\* The next loop iteration dispatches Transfer with three operands that name
\* accounts of the view: amount on top, then the destination, then the source.
TransferInRange ==
    /\ Dispatching("Transfer")
    /\ Poppable(3)
    /\ ~UsizeGe(Operand(2), Len(accounts))
    /\ ~UsizeGe(Operand(3), Len(accounts))

\* The sum of all balances, nine bytes wide so that it cannot overflow.
RECURSIVE TotalLamports(_)
TotalLamports(acc) ==
    IF acc = <<>> THEN Zeros(WordBytes + 1)
    ELSE SubSeq(AddDigits(Widen(Head(acc).lamports, WordBytes + 1),
                          TotalLamports(Tail(acc)), 0), 1, WordBytes + 1)

\* C8: a Transfer between in-range accounts with amount <= balance(src) and
\* balance(dst) + amount <= u64::MAX goes on, takes amount from the source
\* and adds it to the destination (nothing changes when they are the same
\* account), leaves every other balance alone and conserves the total.
C8_TransferMovesAmount ==
    [][(/\ TransferInRange
        /\ DigitsLe(Operand(1), accounts[Idx(Operand(3))].lamports)
        /\ AddDigits(accounts[Idx(Operand(2))].lamports, Operand(1), 0)[WordBytes + 1] = 0)
          => LET amount == Operand(1)
                 di     == Idx(Operand(2))
                 si     == Idx(Operand(3))
             IN  /\ running' /\ result' = Pending
                 /\ \A i \in DOMAIN accounts :
                      accounts'[i].lamports =
                          IF si = di \/ i \notin {si, di} THEN accounts[i].lamports
                          ELSE IF i = si
                          THEN SubSeq(SubDigits(accounts[i].lamports, amount, 0), 1, WordBytes)
                          ELSE SubSeq(AddDigits(accounts[i].lamports, amount, 0), 1, WordBytes)
                 /\ TotalLamports(accounts') = TotalLamports(accounts)]_vars

\* 3 lamports have moved from account 0, which held 7, to account 1, which
\* held none.
C8_Witness ==
    /\ code = TransferProgram(0, 1, 3)
    /\ calls = 1
    /\ result = Ok(None)
    /\ accounts[1].lamports = U64(4)
    /\ accounts[2].lamports = U64(3)

\* C9: a Transfer whose source or destination account is not writable fails
\* and changes no balance.
C9_TransferRequiresWritable ==
    [][(/\ TransferInRange
        /\ \/ ~accounts[Idx(Operand(3))].is_writable
           \/ ~accounts[Idx(Operand(2))].is_writable)
          => /\ result'.kind = "Err"
             /\ accounts' = accounts]_vars

\* C10: Div and Mod with a zero divisor both fail with DivisionByZero, an
\* error other than ArithmeticOverflow, and the call returns no value.
C10_ZeroDivisorIsDivisionByZero ==
    [][(/\ Dispatching("Div") \/ Dispatching("Mod")
        /\ Poppable(2)
        /\ Operand(1) = ZeroValue)
          => /\ result'.kind = "Err"
             /\ result'.err = ProgramError_from(VMError("DivisionByZero"))
             /\ result'.err # ProgramError_from(VMError("ArithmeticOverflow"))
             /\ result'.value = None]_vars

\* Handle h of the vector `field` holds nothing: it lies past the vector's end
\* or its slot is None.
Unused(field, h) ==
    \/ h >= Len(vm.data_structures[field])
    \/ vm.data_structures[field][h + 1] = None

\* C11: on a handle that holds nothing, each create opcode succeeds, leaves
\* its type's vector at least h + 1 long and leaves a new, empty instance at
\* h.
C11_CreateOnUnusedHandle ==
    [][\A op \in CreateOps :
         (/\ Dispatching(op)
          /\ Poppable(1)
          /\ IsSmall(Operand(1))
          /\ Unused(DsField(op), ToNat(Operand(1))))
            => /\ running'
               /\ Len(vm'.data_structures[DsField(op)]) >= ToNat(Operand(1)) + 1
               /\ vm'.data_structures[DsField(op)][ToNat(Operand(1)) + 1]
                    = Some(DsFresh(op))]_vars

\* C12: a non-create opcode on a handle that holds nothing creates an empty
\* instance there instead of failing: BTreeClear succeeds and leaves a map at
\* the handle, and BTreeInsert succeeds and leaves a map holding the entry.
C12_NonCreateAutoCreates ==
    /\ [][(/\ Dispatching("BTreeClear")
           /\ Poppable(1)
           /\ IsSmall(Operand(1))
           /\ Unused("btrees", ToNat(Operand(1))))
             => /\ running'
                /\ Len(vm'.data_structures.btrees) >= ToNat(Operand(1)) + 1
                /\ vm'.data_structures.btrees[ToNat(Operand(1)) + 1]
                     = Some(BTreeMapDS_new)]_vars
    /\ [][(/\ Dispatching("BTreeInsert")
           /\ Poppable(3)
           /\ IsSmall(Operand(3))
           /\ Unused("btrees", ToNat(Operand(3))))
             => /\ running'
                /\ Len(vm'.data_structures.btrees) >= ToNat(Operand(3)) + 1
                /\ vm'.data_structures.btrees[ToNat(Operand(3)) + 1]
                     = Some(BTreeMapDS_insert(BTreeMapDS_new, Operand(2), Operand(1)).b)]_vars

\* a is a proper prefix of b.
ProperPrefix(a, b) == Len(a) < Len(b) /\ SubSeq(b, 1, Len(a)) = a

\* C13: after insert(key, v), get(key) is v; an insert of a proper prefix or
\* of an extension of a key (of any other key) leaves that key's get as it
\* was; and a key never inserted, a proper prefix of inserted keys included,
\* is absent for get and for contains.
C13_TrieInsertGet ==
    /\ [](\A k \in TrieKeys :
            /\ TrieDS_get(obj, k) = IF k \in DOMAIN expect THEN Some(expect[k]) ELSE None
            /\ TrieDS_contains(obj, k) <=> k \in DOMAIN expect)
    /\ [][last'.op = "insert"
            => /\ TrieDS_get(obj', last'.key) = Some(last'.value)
               /\ \A k \in TrieKeys :
                    (ProperPrefix(k, last'.key) \/ ProperPrefix(last'.key, k))
                       => TrieDS_get(obj', k) = TrieDS_get(obj, k)]_vars

\* "he" and the empty key were inserted and "h", a proper prefix of the one and
\* an extension of the other, never was: it is absent.
C13_Witness ==
    /\ last.op = "insert"
    /\ <<104, 101>> \in DOMAIN expect
    /\ <<>> \in DOMAIN expect
    /\ <<104>> \notin DOMAIN expect
    /\ TrieDS_get(obj, <<104, 101>>) = Some(expect[<<104, 101>>])
    /\ ~TrieDS_contains(obj, <<104>>)

\* The nodes reachable from the nodes of `set` along the edges the test added:
\* the least set that holds `set` and every target of an edge leaving it.
RECURSIVE ReachableFrom(_)
ReachableFrom(set) ==
    LET next == set \cup {e[2] : e \in {d \in expect.edges : d[1] \in set}}
    IN  IF next = set THEN set ELSE ReachableFrom(next)

\* C14: for every node s of a graph built by add_node and add_edge, bfs(s)
\* starts with s and holds exactly the nodes reachable from s along directed
\* edges, each once.
C14_BfsVisitsReachableOnce ==
    \A s \in expect.nodes :
        LET order == GraphDS_bfs(obj, s)
        IN  /\ order # <<>>
            /\ order[1] = s
            /\ {order[i] : i \in DOMAIN order} = ReachableFrom({s})
            /\ Len(order) = Cardinality(ReachableFrom({s}))

\* Node 1 reaches node 2 along two parallel edges and 2 leads back to 1; node 3
\* is in the graph and out of reach: bfs(1) is 1, 2.
C14_Witness ==
    /\ last.op = "add_node"
    /\ expect.nodes = {1, 2, 3}
    /\ expect.edges = {<<1, 2>>, <<2, 1>>}
    /\ Len(obj.edges[1]) = 2
    /\ GraphDS_bfs(obj, 1) = <<1, 2>>

\* How often x occurs in the sequence q.
Occurrences(q, x) == Cardinality({i \in DOMAIN q : q[i] = x})

\* C15: after any sequence of add_entry calls, in any timestamp order, the
\* series holds every bar added exactly as often as it was added and its
\* timestamps are non-decreasing by index.
C15_SeriesSortedAndComplete ==
    /\ Len(obj.data) = Len(expect)
    /\ \A bar \in Bars : Occurrences(obj.data, bar) = Occurrences(expect, bar)
    /\ \A i \in 1..(Len(obj.data) - 1) : obj.data[i].timestamp <= obj.data[i + 1].timestamp

\* A bar was added in front of two bars that were added before it and share
\* a timestamp.
C15_Witness ==
    /\ last.op = "add_entry"
    /\ Len(obj.data) = 3
    /\ last.pos = 0
    /\ obj.data[1] = expect[3]
    /\ obj.data[1].timestamp < obj.data[2].timestamp
    /\ obj.data[2].timestamp = obj.data[3].timestamp
    /\ obj.data[2] # obj.data[3]

\* The sum of the closes of bars from..to (1-based) as an unbounded number:
\* WordBytes + 1 digits hold the sum of up to 255 words.
RECURSIVE SumOfCloses(_, _, _)
SumOfCloses(data, from, to) ==
    IF from > to THEN Zeros(WordBytes + 1)
    ELSE SubSeq(AddDigits(Widen(data[from].close, WordBytes + 1),
                          SumOfCloses(data, from + 1, to), 0),
                1, WordBytes + 1)

\* The moving average the claim describes: nothing for a period of 0 or above
\* the length, else one entry per window j..j+period-1, the timestamp of the
\* window's last bar with the floor of the mean of its closes.
MeanOfCloses(data, period) ==
    IF period = 0 \/ period > Len(data) THEN <<>>
    ELSE [j \in 1..(Len(data) - period + 1) |->
            <<data[j + period - 1].timestamp,
              SubSeq(u64_div_small(SumOfCloses(data, j, j + period - 1), period),
                     1, WordBytes)>>]

\* C16: calculate_sma(p) returns, for 1 <= p <= L, exactly L - p + 1 entries,
\* the j-th being the timestamp of bar j + p - 1 with the floor of the mean of
\* the closes of bars j..j+p-1, and no entries for p = 0 or p > L.
C16_SmaIsFloorOfMean ==
    last.op = "calculate_sma"
        => last.result = Some(MeanOfCloses(obj.data, last.period))

\* The last call of MemSpec wrote the range offset..offset+len-1.
Wrote(op) == last'.op = op /\ last'.count = last.count + 1

\* C17: after store(o, bytes) of N bytes, load(o, N) returns those bytes, also
\* when the store grew the buffer; a store or a copy leaves every byte outside
\* the range it writes as it was, so the bytes stay until a later write into
\* [o, o + N).
C17_StoreLoadRoundTrip ==
    /\ [][Wrote("store")
            => Memory_load(obj', last'.offset, last'.len) = Some(last'.value)]_vars
    /\ [][(Wrote("store") \/ Wrote("copy"))
            => \A o \in (DOMAIN obj.bytes \cup DOMAIN obj'.bytes)
                          \ (last'.offset..(last'.offset + last'.len - 1)) :
                  Memory_byte(obj', o) = Memory_byte(obj, o)]_vars

\* A store across the end of the 1024-byte buffer grew it; the bytes stored
\* at 0 before are still there and the new bytes read back.
C17_Witness ==
    /\ last.op = "store"
    /\ last.offset = 1020
    /\ last.len = 8
    /\ Memory_capacity(obj) > INITIAL_MEMORY
    /\ Memory_load(obj, 1020, 8) = Some(<<1, 2, 3, 0, 5, 6, 7, 8>>)
    /\ Memory_load(obj, 0, 2) = Some(<<9, 10>>)

C19_CapacityGrowsByHalf ==
    [][(Wrote("store") /\ last'.offset + last'.len > Memory_capacity(obj))
          => Memory_capacity(obj') =
                Max((Memory_capacity(obj) * 3) \div 2, last'.offset + last'.len)]_vars

\* The cost of w words of memory: 3 * w + floor(w * w / 512).
WordsCost(w) == 3 * w + (w * w) \div 512

\* The number of 32-byte words that hold n bytes.
Words(n) == (n + 31) \div 32

\* C20: a Store, StoreN or Mstore8 that execute runs to its end consumes its
\* base cost plus the cost of the words at the new logical size minus the cost
\* of the words at the old one (the base cost alone when the size stays).
C20_StoreChargesExpansion ==
    [][\A op \in {"Store", "StoreN", "Mstore8"} :
         (Dispatching(op) /\ running')
            => Gas_remaining(vm.gas) - Gas_remaining(vm'.gas)
                 = gas_cost(op) + WordsCost(Words(Memory_size(vm'.memory)))
                                - WordsCost(Words(Memory_size(vm.memory)))]_vars

\* C21: every loop iteration whose opcode decodes and whose base gas is
\* charged hands the tracer the record of that opcode, with the opcode's own
\* byte index as pc, the base cost, the gas remaining after the charge and
\* the stack depth and memory size from before the opcode's effect; no other
\* step (a failed decode, a failed charge, a call's entry or exit) hands over
\* any.
C21_OneTracePerChargedOpcode ==
    /\ [][\A op \in OpNames :
             Dispatching(op)
                => vm'.tracer.trace =
                     Some(ExecutionTrace(vm.pc, op, gas_cost(op),
                                         Gas_remaining(vm.gas) - gas_cost(op),
                                         Stack_depth(vm.stack),
                                         Memory_size(vm.memory)))]_vars
    /\ [][(\A op \in OpNames : ~Dispatching(op)) => vm'.tracer = vm.tracer]_vars

\* The tracer holds the record of a Store that raised the memory size: the
\* record shows the size and the depth from before the store.
C21_Witness ==
    /\ vm.tracer.trace # None
    /\ Unwrap(vm.tracer.trace).opcode = "Store"
    /\ Unwrap(vm.tracer.trace).memory_size = 0
    /\ Unwrap(vm.tracer.trace).stack_depth = 2
    /\ Unwrap(vm.tracer.trace).pc = 4
    /\ Memory_size(vm.memory) = 8
    /\ Stack_depth(vm.stack) = 0

\* The step is an Execute instruction against a program account whose data
\* is a record with is_initialized = 0.
ExecuteOnUninitialized ==
    /\ calls' = calls + 1
    /\ last'.op = "Execute"
    /\ accounts[1].data.len = ProgramState_LEN
    /\ accounts[1].data.byte0 = 0

\* The instruction built no VM, so that no opcode ran, and left every
\* account (record and balance) as it was.
NothingExecuted ==
    /\ ~last'.built
    /\ vm' = vm
    /\ accounts' = accounts

\* C22 as stated: an Execute instruction against an account whose record has
\* is_initialized = 0 fails with UninitializedAccount before any opcode
\* executes and leaves the record and all balances unchanged.
C22_UninitializedAlwaysReported ==
    [][ExecuteOnUninitialized
          => /\ result' = Err(ProgramError("UninitializedAccount"))
             /\ NothingExecuted]_vars

\* C22, amended: an Execute instruction against an account whose record has
\* is_initialized = 0 fails before any opcode executes and leaves the record
\* and all balances unchanged; the error is UninitializedAccount when the
\* program owns the account and IncorrectProgramId when it does not.
C22_ExecuteNeedsInitializedRecord ==
    [][ExecuteOnUninitialized
          => /\ result' = IF accounts[1].owner = HostProgramId
                          THEN Err(ProgramError("UninitializedAccount"))
                          ELSE Err(ProgramError("IncorrectProgramId"))
             /\ NothingExecuted]_vars

\* An Execute instruction was refused for its uninitialized record after an
\* earlier one against the same program-owned account had failed the same
\* way: the record is still all zero.
C22_Witness ==
    /\ last.op = "Execute"
    /\ calls = 2
    /\ result = Err(ProgramError("UninitializedAccount"))
    /\ accounts[1].owner = HostProgramId
    /\ accounts[1].data = ZeroData(ProgramState_LEN)
    /\ code = TransferProgram(0, 1, 3)
    /\ vm = VM_new

\* C23: in every state the frame markers, read from the oldest to the
\* newest, are non-decreasing stack depths.
C23_FrameMarkersNonDecreasing ==
    \A i \in 1..(Len(vm.stack.frames) - 1) :
        vm.stack.frames[i] <= vm.stack.frames[i + 1]

\* C24: a Return that finds a value on the stack ends execute with
\* Ok(Some(value)), whether or not a frame exists; when one exists, the depth
\* becomes the depth that frame recorded.
C24_ReturnYieldsTopValue ==
    [][(Dispatching("Return") /\ Poppable(1))
          => /\ result' = Ok(Some(Operand(1)))
             /\ ~running'
             /\ vm.stack.frames # <<>>
                  => Stack_depth(vm'.stack) = vm.stack.frames[Len(vm.stack.frames)]]_vars

\* C25: a pop_frame that closes a frame after which only pushes were made
\* leaves the stack at the depth push_frame found and holding the values it
\* held then: pops return those values, the latest first.
C25_PopFrameRestoresValues ==
    [][(last'.op = "pop_frame" /\ last'.ops = last.ops + 1
        /\ expect # <<>> /\ expect[Len(expect)].only_pushes)
          => /\ last'.err = NoError
             /\ Stack_depth(obj') = Len(expect[Len(expect)].held)
             /\ Drain(obj') = expect[Len(expect)].held]_vars

\* seq with its elements at positions i and j exchanged.
Exchanged(seq, i, j) == [seq EXCEPT ![i] = seq[j], ![j] = seq[i]]

\* C26: with n below the depth, dup(n) puts a copy of the value n positions
\* below the top on top and swap(n) exchanges the top with the value n
\* positions below it, as pops observe; with n at or above the depth both
\* return StackUnderflow and leave the stack as it was.
C26_DupAndSwapReachNthBelowTop ==
    [][(last'.op \in {"dup", "swap"} /\ last'.ops = last.ops + 1)
          => IF last'.n >= Stack_depth(obj)
             THEN last'.err = "StackUnderflow" /\ obj' = obj
             ELSE /\ last'.err = NoError
                  /\ Drain(obj') = IF last'.op = "dup"
                                   THEN <<Drain(obj)[last'.n + 1]>> \o Drain(obj)
                                   ELSE Exchanged(Drain(obj), 1, last'.n + 1)]_vars

\* The next loop iteration dispatches an opcode whose immediate (one byte
\* for Push1, Dup and Swap, eight for Push8) runs past the end of the
\* bytecode.
ImmediateTruncated ==
    \/ /\ \E op \in {"Push1", "Dup", "Swap"} : Dispatching(op)
       /\ vm.pc + 1 >= Len(code)
    \/ /\ Dispatching("Push8")
       /\ vm.pc + 1 + 8 > Len(code)

\* C27: when the bytecode ends before the immediate of Push1, Push8, Dup or
\* Swap is complete, execute returns the InvalidInstruction error; it does
\* not panic.
C27_TruncatedImmediateIsInvalidInstruction ==
    [][ImmediateTruncated
          => /\ result' = Err(ProgramError_from(VMError("InvalidInstruction")))
             /\ ~running']_vars

\* The value on top of the stack the next handler leaves is v, n values
\* lower than the depth it found.
LeavesOnTop(v, n) ==
    /\ running'
    /\ Stack_depth(vm'.stack) = Stack_depth(vm.stack) - n
    /\ vm'.stack.data[Len(vm'.stack.data)] = v

\* q is floor(a * b / c) for words a, b, q and a nonzero word c:
\* q * c <= a * b < q * c + c, in 16-digit arithmetic.
IsFloorOfMulDiv(q, a, b, c) ==
    /\ DigitsLe(MulFull(q, c), MulFull(a, b))
    /\ LET next == AddDigits(MulFull(q, c), Widen(c, 2 * WordBytes), 0)
       IN  DigitsLt(Widen(MulFull(a, b), 2 * WordBytes + 1), next)

\* a * b / c is at or above 2^64, c being nonzero: a * b >= 2^64 * c.
MulDivQuotientTooLarge(a, b, c) ==
    DigitsLe(Zeros(WordBytes) \o c, MulFull(a, b))

\* C28: MulDiv pushes floor(a * b / c) when c is nonzero and the quotient is
\* below 2^64, whatever the size of a * b; when the quotient is 2^64 or more,
\* or c is 0, execute returns an error and does not panic.
C28_MulDivFloorOrError ==
    [][(Dispatching("MulDiv") /\ Poppable(3))
          => IF Operand(1) # ZeroValue
                /\ ~MulDivQuotientTooLarge(Operand(3), Operand(2), Operand(1))
             THEN /\ LeavesOnTop(vm'.stack.data[Len(vm'.stack.data)], 2)
                  /\ IsFloorOfMulDiv(vm'.stack.data[Len(vm'.stack.data)],
                                     Operand(3), Operand(2), Operand(1))
             ELSE result'.kind = "Err" /\ ~running']_vars

\* base to the power n, None at or above 2^64: 1 for n = 0, base itself for
\* a base of 0 or 1 and n > 0, out of range for a base of 2 or more and
\* n > 64, and n multiplications otherwise.
RECURSIVE Power(_, _)
Power(base, n) ==
    IF n = 0 THEN Some(U64(1))
    ELSE IF base \in {U64(0), U64(1)} THEN Some(base)
    ELSE IF n > 64 THEN None
    ELSE LET rest == Power(base, n - 1)
         IN  IF rest = None THEN None ELSE u64_checked_mul(Unwrap(rest), base)

\* C29: Exp pushes base^exponent whenever that is below 2^64 and fails with
\* ArithmeticOverflow only when it is not.
C29_ExpExactBelowRange ==
    [][(Dispatching("Exp") /\ Poppable(2))
          => LET power == Power(Operand(2), ToNat(Operand(1)))
             IN  IF power # None
                 THEN LeavesOnTop(Unwrap(power), 1)
                 ELSE /\ result' = Err(ProgramError_from(VMError("ArithmeticOverflow")))
                      /\ ~running']_vars

\* The next loop iteration dispatches TrieInsert, TrieGet or TrieContains
\* with all its operands on the stack and a key length of 0.
TrieOpWithEmptyKey ==
    \/ Dispatching("TrieInsert") /\ Poppable(4) /\ Operand(2) = ZeroValue
    \/ /\ Dispatching("TrieGet") \/ Dispatching("TrieContains")
       /\ Poppable(3)
       /\ Operand(1) = ZeroValue

\* C30: TrieInsert, TrieGet and TrieContains with a key length of 0 fail
\* with InvalidDataStructureOperation and leave every trie as it was.
C30_EmptyKeyRejected ==
    [][TrieOpWithEmptyKey
          => /\ result' = Err(ProgramError_from(VMError("InvalidDataStructureOperation")))
             /\ ~running'
             /\ vm'.data_structures.tries = vm.data_structures.tries]_vars

\* The opcodes that push a list and its length.
ListingOps == {"GraphGetNeighbors", "GraphBfs", "OhlcvSma"}

\* The next loop iteration runs a listing opcode to its end: the operands are
\* on the stack and the loop goes on to the next opcode.
ListingCompletes ==
    /\ \E op \in ListingOps : Dispatching(op)
    /\ Poppable(2)
    /\ running'
    /\ vm'.pc = vm.pc + 1

\* The structure the handle of the listing opcode names.
ListedStructure ==
    Unwrap(vm.data_structures[IF Dispatching("OhlcvSma") THEN "ohlcvs" ELSE "graphs"]
                             [AsUsize(Operand(2)) + 1])

\* The items the listing opcode at pc reports, in the order it pushes them.
ListedItems ==
    IF Dispatching("GraphBfs") THEN Reverse(GraphDS_bfs(ListedStructure, Operand(1)))
    ELSE IF Dispatching("GraphGetNeighbors")
    THEN PairsFromLast(GraphDS_get_neighbors(ListedStructure, Operand(1)))
    ELSE LET sma == Unwrap(OHLCVDS_calculate_sma(ListedStructure, AsUsize(Operand(1)), TRUE))
         IN  PairsFromLast([i \in DOMAIN sma |-> <<U64(sma[i][1]), sma[i][2]>>])

\* The number of elements the listing opcode at pc reports: nodes for
\* GraphBfs, pairs for GraphGetNeighbors and OhlcvSma.
ListedCount ==
    IF Dispatching("GraphBfs") THEN Len(ListedItems) ELSE Len(ListedItems) \div 2

\* The stack the listing opcode at pc leaves beneath what it pushes.
BeneathListing == SubSeq(vm.stack.data, 1, Len(vm.stack.data) - 2)

\* C31: after GraphGetNeighbors, GraphBfs or OhlcvSma completes, the element
\* count is the last value pushed: the first pop yields the count, and the
\* listed items lie beneath it.
C31_CountIsLastPushed ==
    [][ListingCompletes
          => vm'.stack.data = BeneathListing \o ListedItems \o <<U64(ListedCount)>>]_vars

\* C32: bars added with equal timestamps appear in the series in the order
\* in which they were added: of two bars with the same timestamp, the one
\* added earlier has the lower index.  (Stated for bars that differ and were
\* added once each, so that each can be told apart in the series.)
C32_EqualTimestampsInInsertionOrder ==
    \A i, j \in DOMAIN expect :
        (/\ i < j
         /\ expect[i].timestamp = expect[j].timestamp
         /\ Occurrences(expect, expect[i]) = 1
         /\ Occurrences(expect, expect[j]) = 1)
        => \E earlier, later \in DOMAIN obj.data :
              /\ earlier < later
              /\ obj.data[earlier] = expect[i]
              /\ obj.data[later] = expect[j]

\* The host-visible values of the VM's own errors.
BuiltInErrors == {ProgramError_from(VMError(v)) : v \in DOMAIN VMErrorDiscriminant}

\* C33: host-visible errors are one-to-one: each VM error kind maps to its
\* own custom-error code, a Revert never yields the value of a VM error, and
\* Reverts with different codes yield different values (the value determines
\* the 64-bit code popped).
C33_HostErrorsOneToOne ==
    [][/\ \A v, w \in DOMAIN VMErrorDiscriminant :
            v # w => ProgramError_from(VMError(v)) # ProgramError_from(VMError(w))
       /\ (Dispatching("Revert") /\ Poppable(1))
             => /\ result'.kind = "Err"
                /\ result'.err \notin BuiltInErrors
                /\ Operand(1) = result'.err.code \o Zeros(4)]_vars

\* C34: under any interleaving of consume, checkpoint, commit_checkpoint and
\* revert_to_checkpoint, revert_to_checkpoint restores remaining to the value
\* it had at the most recent checkpoint that has been neither committed nor
\* reverted, and commit_checkpoint removes that checkpoint without changing
\* remaining.
C34_RevertRestoresOpenCheckpoint ==
    [][/\ (MeterRevert /\ expect # <<>>)
            => /\ last'.ok
               /\ Gas_remaining(obj') = expect[Len(expect)]
       /\ MeterCommit => Gas_remaining(obj') = Gas_remaining(obj)
       /\ obj'.checkpoints = expect']_vars

\* A revert raises remaining to the value of an open checkpoint that is
\* older than the latest mark: a later checkpoint was committed or reverted
\* in between, and gas was consumed since.
C34_Witness ==
    /\ last.op = "revert_to_checkpoint"
    /\ last.ok
    /\ last.before.checkpoints # <<>>
    /\ last.before.last_checkpoint < Gas_remaining(obj)
    /\ last.before.remaining < last.before.last_checkpoint

\* C39: in every state of the gas meter reachable through consume,
\* checkpoint, commit_checkpoint, revert_to_checkpoint and reset,
\* last_checkpoint >= remaining, so used() = last_checkpoint - remaining
\* never underflows.
C39_MarkNeverBelowRemaining ==
    /\ obj.last_checkpoint >= obj.remaining
    /\ Gas_used(obj) # None

\* A revert has raised remaining above the mark the meter had before it:
\* used() is 0.
C39_Witness ==
    /\ last.op = "revert_to_checkpoint"
    /\ last.ok
    /\ last.before.last_checkpoint < Gas_remaining(obj)
    /\ Gas_used(obj) = Some(0)

\* The k-th value from the top of stack s (k = 1 is the top), as pops yield
\* them.
FromTop(s, k) == s.data[Len(s.data) - k + 1]

\* C35: vector_add on a stack of depth d >= 8 whose top eight values are
\* a0..a3 then b0..b3 (b3 on top) succeeds, leaves depth d - 4 and replaces
\* each a_i by (a_i + b_i) mod 2^64, also when d is exactly 8; with d < 8 it
\* fails with StackUnderflow and leaves the stack unchanged.
C35_VectorAddAddsTopFours ==
    [][VectorAdd
          => IF Stack_depth(obj) >= 8
             THEN /\ last'.err = NoError
                  /\ Stack_depth(obj') = Stack_depth(obj) - 4
                  /\ \A k \in 1..4 :
                        FromTop(obj', k) = u64_wrapping_add(FromTop(obj, k + 4),
                                                            FromTop(obj, k))
             ELSE /\ last'.err = "StackUnderflow"
                  /\ obj' = obj]_vars

\* C36: a Transfer that fails for any reason (an account index out of range,
\* a source balance below the amount, or a destination balance that would
\* overflow) leaves every account balance exactly as it was before the
\* instruction.
C36_FailedTransferChangesNoBalance ==
    [][(Dispatching("Transfer") /\ result'.kind = "Err")
          => \A i \in DOMAIN accounts : accounts'[i].lamports = accounts[i].lamports]_vars

\* C37: a graph add-edge that fails because the node limit is reached leaves
\* the graph unchanged (neither endpoint has been created and no edge has
\* been added), and in every reachable state the graph holds at most 1024
\* nodes.
C37_FailedAddEdgeChangesNothing ==
    [][/\ (last'.op = "add_edge" /\ last'.err # NoError) => obj' = obj
       /\ Cardinality(DOMAIN obj'.node_values) <= MAX_GRAPH_NODES]_vars

\* C38: across any sequence of host instructions on one program account,
\* total_executions and total_gas_used never decrease; in particular an
\* Initialize processed on an already-initialized account leaves them as
\* they are.
C38_CountersNeverDecrease ==
    [][/\ DigitsLe(accounts[1].data.total_executions,
                   accounts'[1].data.total_executions)
       /\ DigitsLe(accounts[1].data.total_gas_used,
                   accounts'[1].data.total_gas_used)
       /\ (last'.op = "Initialize" /\ accounts[1].data.len = ProgramState_LEN
              /\ accounts[1].data.byte0 # 0)
            => /\ accounts'[1].data.total_executions = accounts[1].data.total_executions
               /\ accounts'[1].data.total_gas_used = accounts[1].data.total_gas_used]_vars

\* C40: create_hyperedge on an edge id the hypergraph already holds changes
\* only that edge's weight: the nodes of the edge stay in it, so
\* get_edges_containing_node still reports the edge for each of them.
C40_CreateExistingEdgeKeepsNodes ==
    [][(last'.op = "create_hyperedge" /\ last'.edge_id \in DOMAIN obj.edges)
         => /\ obj'.edges = obj.edges
            /\ obj'.node_values = obj.node_values
            /\ obj'.edge_weights = MapInsert(obj.edge_weights, last'.edge_id, last'.weight)
            /\ \A node_id \in obj.edges[last'.edge_id] :
                   last'.edge_id \in HypergraphDS_get_edges_containing_node(obj', node_id)]_vars

====
